---------------------------- MODULE Spec2Model ----------------------------
(***************************************************************************)
(* A model of ddsmraw2pnm (src/ddsm-software/ddsmraw2pnm.c): the four      *)
(* digitizer calibration functions, the optical-density normaliser, the    *)
(* calibration self-check, and the conversion of a raw byte stream into a  *)
(* plain PNM file by main and makePnmFile.                                 *)
(*                                                                         *)
(* Numbers.  TLC integers are 32 bits wide, so every intermediate value    *)
(* below stays under 2^31.  A C double is modelled as a signed decimal     *)
(* fixed-point number with 14 fractional digits, which represents every    *)
(* decimal constant of the source exactly (the longest one,                *)
(* 3.96604096240593, has 14 decimals).  Quotients and log10 are truncated  *)
(* to that resolution.  The integer results of the four calibration        *)
(* functions computed this way were compared with the compiled source      *)
(* (g++ -O0 and -O2, x86-64) on all 4 * 65536 inputs: they are equal,      *)
(* because the real value of (65535/4.0)*od is never nearer than 3e-5 to   *)
(* an integer, far more than the rounding error of either arithmetic.      *)
(***************************************************************************)
EXTENDS Integers, Sequences, FiniteSets, TLC

(***************************************************************************)
(* Program constants (ddsmraw2pnm.c lines 22-55).                          *)
(***************************************************************************)
success == 0
syntax_error == -1
rows_not_positive_error == -2
cols_not_positive_error == -3
file_error == -4
pnm_error == -5
program_error == -6
image_size_error == -7
maxUnsignedIntWithNumBits == 65535

\* maxOD = 4.0: the divisor of 65535 in od2NormGreyLevel.
maxOD == 4

(***************************************************************************)
(* Fixed-point decimals: [s, h, l] stands for s * (h * 10^7 + l) * 10^-14, *)
(* s in {1,-1}, h >= 0, 0 <= l < 10^7.                                     *)
(***************************************************************************)
FxBase == 10^7

Fx(s, h, l) == [s |-> s, h |-> h, l |-> l]

\* The decimal literal ip.aaaaaaabbbbbbb (two groups of seven decimals).
FxLit(ip, a, b) == Fx(1, ip * FxBase + a, b)

FxNeg(x) == Fx(-x.s, x.h, x.l)

\* |x| < |y|
FxMagLess(x, y) == x.h < y.h \/ (x.h = y.h /\ x.l < y.l)

\* |x| + |y| and |x| - |y| (the latter for |x| >= |y|), as <<h, l>>.
FxMagAdd(x, y) ==
  IF x.l + y.l >= FxBase THEN <<x.h + y.h + 1, x.l + y.l - FxBase>>
                         ELSE <<x.h + y.h, x.l + y.l>>

FxMagSub(x, y) ==
  IF x.l < y.l THEN <<x.h - y.h - 1, x.l + FxBase - y.l>>
               ELSE <<x.h - y.h, x.l - y.l>>

\* x + y, exact.
FxAdd(x, y) ==
  IF x.s = y.s
    THEN LET m == FxMagAdd(x, y) IN Fx(x.s, m[1], m[2])
    ELSE IF FxMagLess(x, y)
           THEN LET m == FxMagSub(y, x) IN Fx(y.s, m[1], m[2])
           ELSE LET m == FxMagSub(x, y) IN Fx(x.s, m[1], m[2])

\* x - y, exact.
FxSub(x, y) == FxAdd(x, FxNeg(y))

(***************************************************************************)
(* MulDivMod(a, b, d) = <<q, r>> with a * b = q * d + r and 0 <= r < d,    *)
(* for a, b >= 0 and d > 0, by long multiplication over the base-16 digits *)
(* of b, so that no intermediate exceeds 16 * d + 15 * a.                  *)
(***************************************************************************)
RECURSIVE MulDivMod(_, _, _)
MulDivMod(a, b, d) ==
  IF b = 0 THEN <<0, 0>>
  ELSE LET p == MulDivMod(a, b \div 16, d)
           t == 16 * p[2] + (b % 16) * a
       IN  <<16 * p[1] + (t \div d), t % d>>

\* x * n for an integer n >= 0, exact.
FxMulInt(x, n) ==
  LET p == MulDivMod(x.l, n, FxBase)
  IN  Fx(x.s, x.h * n + p[1], p[2])

\* x * num / den for integers num > 0 and den # 0, truncated towards zero.
FxMulRatio(x, num, den) ==
  LET d   == IF den < 0 THEN -den ELSE den
      ph  == MulDivMod(x.h, num, d)
      p2  == MulDivMod(ph[2], FxBase, d)
      p3  == MulDivMod(x.l, num, d)
      low == p2[1] + p3[1] + ((p2[2] + p3[2]) \div d)
  IN  Fx(IF den < 0 THEN -x.s ELSE x.s, ph[1] + (low \div FxBase), low % FxBase)

\* The quotient n / d of two integers, d # 0, truncated towards zero.
FxRatio(n, d) ==
  LET an == IF n < 0 THEN -n ELSE n
      ad == IF d < 0 THEN -d ELSE d
      p1 == MulDivMod(an, FxBase, ad)
      p2 == MulDivMod(p1[2], FxBase, ad)
  IN  Fx(IF (n < 0) = (d < 0) THEN 1 ELSE -1, p1[1], p2[1])

(***************************************************************************)
(* log10 of <cmath> for an integer argument n >= 1: log10(2) * log2(n),    *)
(* log2 by the square-and-compare method on a 30-bit mantissa.             *)
(***************************************************************************)
\* log10(2) = 0.30102999566398...
Log10Of2 == FxLit(0, 3010299, 9566398)

\* The number of fraction bits of log2 that are computed.
LogBits == 30

RECURSIVE ILog2(_)
ILog2(n) == IF n < 2 THEN 0 ELSE 1 + ILog2(n \div 2)

\* floor(g * g / 2^30) for g = gh * 2^15 + gl < 2^30.
SquareFraction(gh, gl) ==
  gh * gh + ((2 * gh * gl + ((gl * gl) \div 32768)) \div 32768)

\* The mantissa is 1 + g / 2^30 in [1, 2); f holds the bits of log2 found so
\* far and j counts the bits left.  Squaring the mantissa doubles its log2:
\* when the square reaches 2 the next bit is 1 and the square is halved.
RECURSIVE Log2Bits(_, _, _)
Log2Step(g, sq, f, j) ==
  IF sq >= 2^30 - 2 * g
    THEN Log2Bits(g - 2^29 + (sq \div 2), 2 * f + 1, j - 1)
    ELSE Log2Bits(2 * g + sq, 2 * f, j - 1)

Log2Bits(g, f, j) ==
  IF j = 0 THEN f
  ELSE Log2Step(g, SquareFraction(g \div 32768, g % 32768), f, j)

\* log10(2) * (e + f / 2^30)
Log10FromLog2(e, f) ==
  FxAdd(FxMulInt(Log10Of2, e),
        FxAdd(FxMulRatio(Log10Of2, f \div 32768, 32768),
              FxMulRatio(FxMulRatio(Log10Of2, f % 32768, 32768), 1, 32768)))

Log10OfMantissa(n, e) ==
  Log10FromLog2(e, Log2Bits((n - 2^e) * 2^(30 - e), 0, LogBits))

log10(n) == Log10OfMantissa(n, ILog2(n))

(***************************************************************************)
(* checkRange (lines 161-170).  The result is [ok, out]: the returned flag *)
(* and the lines written to std::cout.                                     *)
(***************************************************************************)
checkRange(i) ==
  IF i > maxUnsignedIntWithNumBits
    THEN [ok |-> FALSE, out |-> <<"Data outside range. Data is: " \o ToString(i)>>]
    ELSE [ok |-> TRUE, out |-> <<>>]

(***************************************************************************)
(* std::cout << od (line 183): a double in the default format, six         *)
(* significant digits, rounded, without trailing zeros.  Defined for a     *)
(* positive od of at least 1, which every od that line 183 can print is;   *)
(* the fixed notation applies there, and the fixed-point record holds no   *)
(* od of 215 or more.  The result is the set of the texts the statement    *)
(* can write.  The stream rounds the exact value of the double, of which  *)
(* the record holds the first fourteen decimals.  When these are exactly   *)
(* one half of the last digit printed, the double is either that half,     *)
(* which is rounded to the even digit, or above it, which is rounded up:   *)
(* both texts are in the set.                                              *)
(***************************************************************************)
FormatDouble(od) ==
  LET ip    == od.h \div FxBase
      n     == CHOOSE c \in 1..3 : 10^(c - 1) <= ip /\ ip < 10^c
      d     == 6 - n
      unit  == 10^(7 - d)
      kept  == (od.h % FxBase) \div unit
      rest  == (od.h % FxBase) % unit
      half  == 2 * rest = unit /\ od.l = 0
      ups   == IF half THEN {kept % 2, 1}
               ELSE IF 2 * rest >= unit THEN {1} ELSE {0}
      Text(total) ==
        LET whole == total \div 10^d
            f     == total % 10^d
            t     == CHOOSE c \in 0..(d - 1) : f % 10^c = 0 /\ f % 10^(c + 1) # 0
            sig   == f \div 10^t
            z     == CHOOSE c \in 0..(d - t - 1) :
                       10^(d - t - c - 1) <= sig /\ sig < 10^(d - t - c)
        IN  IF f = 0 THEN ToString(whole)
            ELSE ToString(whole) \o "." \o <<"", "0", "00", "000", "0000">>[z + 1]
                   \o ToString(sig)
  IN  CASE od.s = 1 /\ ip >= 1 ->
         {Text(ip * 10^d + kept + up) : up \in ups}

(***************************************************************************)
(* od2NormGreyLevel (lines 177-205).  The result is [ok, val, out]: the    *)
(* returned flag, the value left in *retVal and the set of the texts,      *)
(* each a sequence of lines, that the call can write to std::cout.         *)
(*                                                                         *)
(* Line 179 converts (65535 / 4.0) * od to unsigned int, which truncates   *)
(* towards zero: a product in (-1, 0) becomes 0.  The conversion of a      *)
(* product <= -1 is undefined in C++; no calibration function produces     *)
(* one, and the operator is left undefined there.                          *)
(***************************************************************************)
\* trunc(|od| * 65535 / 4)
ScaledMagnitude(od) ==
  LET p1 == MulDivMod(od.l, maxUnsignedIntWithNumBits, FxBase)
      p2 == MulDivMod(od.h, maxUnsignedIntWithNumBits, maxOD * FxBase)
  IN  p2[1] + ((p2[2] + p1[1]) \div (maxOD * FxBase))

\* Variant: the product is rounded to the nearest integer.
DoubleToUnsignedNearest(od) ==
  LET p1 == MulDivMod(od.l, maxUnsignedIntWithNumBits, FxBase)
      p2 == MulDivMod(od.h, maxUnsignedIntWithNumBits, maxOD * FxBase)
  IN  p2[1] + ((p2[2] + p1[1] + 2 * FxBase) \div (maxOD * FxBase))

DoubleToUnsigned(od) ==
  LET m == ScaledMagnitude(od)
  IN  CASE od.s = 1 -> m
        [] od.s = -1 /\ m = 0 -> 0

\* Variant: no companding.
CompandLinear(w) == w

\* Line 193: (1.0 / 65535) * (w * w), truncated.  The square is exact in a
\* double and the product is never below the integer it should reach, so
\* the result is floor(w * w / 65535).  For w >= 2^15 the square exceeds 31
\* bits; with v = 65535 - w, w * w = 65535 * (w - v) + v * v.
Compand(w) ==
  IF w < 32768
    THEN (w * w) \div maxUnsignedIntWithNumBits
    ELSE (w - (maxUnsignedIntWithNumBits - w))
           + (((maxUnsignedIntWithNumBits - w) * (maxUnsignedIntWithNumBits - w))
                \div maxUnsignedIntWithNumBits)

\* Line 183: the lines that can be written for a density that is out of
\* range, one for each text of FormatDouble.
OutOfRangeMessage(od) ==
  { "Optical density value was out of range; value was " \o text :
      text \in FormatDouble(od) }

od2NormGreyLevel(od) ==
  LET v == DoubleToUnsigned(od)
  IN  IF v > maxUnsignedIntWithNumBits
        THEN [ok |-> FALSE, val |-> v,
              out |-> {<<line>> : line \in OutOfRangeMessage(od)}]
        ELSE [ok |-> TRUE, val |-> Compand(maxUnsignedIntWithNumBits - v),
              out |-> {<<>>}]

(***************************************************************************)
(* The calibration functions (lines 211-304).  Each XxxOD is the optical   *)
(* density the function passes to od2NormGreyLevel.                        *)
(***************************************************************************)
\* Variant: no lower clamp.
dbaClampNoFloor(raw) == IF raw > 64064 THEN 64064 ELSE raw

\* Variant: the lower clamp at 5.
dbaClampFloorFive(raw) ==
  LET r1 == IF raw > 64064 THEN 64064 ELSE raw
  IN  IF r1 < 5 THEN 5 ELSE r1

dbaClamp(raw) ==
  LET r1 == IF raw > 64064 THEN 64064 ELSE raw
  IN  IF r1 < 4 THEN 4 ELSE r1

\* Line 233: (log10(raw) - 4.80662) / (-1.07553)
dbaFormula(raw) ==
  FxMulRatio(FxSub(log10(raw), FxLit(4, 8066200, 0)), 100000, -107553)

\* Variant: raw samples up to 4 are given the optical density 0.
dbaODZeroUpToFour(raw) ==
  IF raw > 4 THEN dbaFormula(dbaClamp(raw)) ELSE Fx(1, 0, 0)

dbaOD(raw) == IF raw # 0 THEN dbaFormula(dbaClamp(raw)) ELSE Fx(1, 0, 0)

dbaCalibration(raw) == od2NormGreyLevel(dbaOD(raw))

howtekMghClamp(raw) == IF raw > 4006 THEN 4006 ELSE raw

\* Line 255: 3.789 + ((-0.00094568) * raw)
howtekMghFormula(raw) ==
  FxAdd(FxLit(3, 7890000, 0), FxMulInt(FxNeg(FxLit(0, 9456, 8000000)), raw))

howtekMghOD(raw) == howtekMghFormula(howtekMghClamp(raw))

howtekMghCalibration(raw) == od2NormGreyLevel(howtekMghOD(raw))

howtekIsmdClamp(raw) == IF raw > 4003 THEN 4003 ELSE raw

\* Line 275: 3.96604096240593 + ((-0.00099055807612) * raw)
howtekIsmdFormula(raw) ==
  FxAdd(FxLit(3, 9660409, 6240593), FxMulInt(FxNeg(FxLit(0, 9905, 5807612)), raw))

howtekIsmdOD(raw) == howtekIsmdFormula(howtekIsmdClamp(raw))

howtekIsmdCalibration(raw) == od2NormGreyLevel(howtekIsmdOD(raw))

lumisysClamp(raw) ==
  LET r1 == IF raw < 61 THEN 61 ELSE raw
  IN  IF r1 > 4097 THEN 4097 ELSE r1

\* Line 300: (raw - 4096.99) / (-1009.01), both terms scaled by 100.
lumisysFormula(raw) == FxRatio(100 * raw - 409699, -100901)

lumisysOD(raw) == lumisysFormula(lumisysClamp(raw))

lumisysCalibration(raw) == od2NormGreyLevel(lumisysOD(raw))

\* The digitizer names (lines 42-45) and the function each selects.
dba == "dba"
howtek_mgh == "howtek-mgh"
howtek_ismd == "howtek-ismd"
lumisys == "lumisys"

\* calibrationFuncs of checkCalibrationFunctions (lines 469-475), in order.
calibrationFuncs == <<dba, howtek_mgh, howtek_ismd, lumisys>>

\* (*calibrationFunc)(&out, raw) for the function selected by name f.
Calibrate(f, raw) ==
  CASE f = dba -> dbaCalibration(raw)
    [] f = howtek_mgh -> howtekMghCalibration(raw)
    [] f = howtek_ismd -> howtekIsmdCalibration(raw)
    [] f = lumisys -> lumisysCalibration(raw)

\* Lines 495-496: the two lines written for the function of the digitizer
\* name and the input value whose output is out of range.
RangeProblemMessage(name, value) ==
  << "The calibration function for the " \o name \o " digitizer has a range problem.",
     "The input value that generated this error was " \o ToString(value) >>

(***************************************************************************)
(* Program state.  Text written to a stream is a sequence of strings, one  *)
(* per output statement.                                                   *)
(***************************************************************************)
VARIABLES
  pc,               \* position in main / makePnmFile
  argc,             \* argument count given to main
  argRows, argCols, \* argv[2], argv[3] as sequences of characters
  digitizer,        \* argv[4]
  numRows, numCols, \* atoi of the two arguments
  calibrationFunc,  \* "NULL" or the name of the selected function
  status,           \* return value of makePnmFile
  exitCode,         \* argument of exit()
  stdout, stderr,   \* text written to std::cout / std::cerr
  inFile,           \* bytes of the input file
  inPos,            \* read position of the input stream
  inEof,            \* end-of-file indicator of the input stream
  input, output,    \* the two FILE pointers: "NULL", "open" or "closed"
  inCloses, outCloses, \* number of fclose calls on each stream
  outCreated,       \* the output file was created or truncated by fopen
  outText,          \* text written to the output file
  thisByte,         \* the read buffer thisByte[1]: <<>> until a byte is stored
  oddByte, thisPixel, numPixels, charColCounter, okSoFar,
  i, inVal, outVal, \* locals of checkCalibrationFunctions
  okVal,            \* value returned by the last calibration call
  pcCheck,          \* position in checkCalibrationFunctions
  od, retVal,       \* argument and *normGreyLevel of od2NormGreyLevel
  pcNorm,           \* position in od2NormGreyLevel
  overlay,          \* lines of the overlay file
  fhandle,          \* the file identifier: "none", "open" or "closed"
  all_lines, num_abnormalities, abnormalities,
  groundtruth,      \* value returned by get_ddsm_groundtruth
  pcGt,             \* position in get_ddsm_groundtruth
  lasterr,          \* message of the last MATLAB error raised
  chain_code, image_dims, anno_image, pos, \* make_annotation_image
  chainIndex,       \* the loop variable i of make_annotation_image
  pcMask,           \* position in make_annotation_image
  session           \* the caller of the returned functions (lines 95-119)

mainVars == <<pc, argc, argRows, argCols, digitizer, numRows, numCols,
              calibrationFunc, status, exitCode, stdout, stderr>>
fileVars == <<inFile, inPos, inEof, input, output, inCloses, outCloses,
              outCreated, outText>>
pnmVars == <<thisByte, oddByte, thisPixel, numPixels, charColCounter, okSoFar>>
calVars == <<i, inVal, outVal, okVal, pcCheck>>
normVars == <<od, retVal, pcNorm>>
gtVars == <<overlay, fhandle, all_lines, num_abnormalities, abnormalities,
            groundtruth, pcGt>>
maskVars == <<chain_code, image_dims, anno_image, pos, chainIndex, pcMask>>
matlabVars == <<gtVars, maskVars, lasterr, session>>
vars == <<mainVars, fileVars, pnmVars, calVars, normVars, matlabVars>>

\* Values of the variables of a part of the program that has not run.
MainIdle ==
  /\ pc = "idle" /\ argc = 0 /\ argRows = <<>> /\ argCols = <<>>
  /\ digitizer = "" /\ numRows = 0 /\ numCols = 0 /\ calibrationFunc = "NULL"
  /\ status = 0 /\ exitCode = 0 /\ stdout = <<>> /\ stderr = <<>>

FileIdle ==
  /\ inFile = <<>> /\ inPos = 0 /\ inEof = FALSE
  /\ input = "NULL" /\ output = "NULL" /\ inCloses = 0 /\ outCloses = 0
  /\ outCreated = FALSE /\ outText = <<>>

PnmIdle ==
  /\ thisByte = <<>> /\ oddByte = TRUE /\ thisPixel = 0 /\ numPixels = 0
  /\ charColCounter = 0 /\ okSoFar = TRUE

CalIdle ==
  /\ i = 0 /\ inVal = 0 /\ outVal = 0 /\ okVal = TRUE /\ pcCheck = "idle"

NormIdle ==
  /\ od = Fx(1, 0, 0) /\ retVal = 0 /\ pcNorm = "idle"

\* The variable anno_image before line 294 of get_ddsm_groundtruth.m has run.
Unallocated == [allocated |-> FALSE, size |-> <<0, 0>>, ones |-> {}]

\* A caller that has called none of the returned functions and kept no result.
NoSession == [handle |-> <<0, 0>>, kept |-> <<>>]

GtIdle ==
  /\ overlay = <<>> /\ fhandle = "none" /\ all_lines = <<>>
  /\ num_abnormalities = 0 /\ abnormalities = <<>> /\ groundtruth = <<>>
  /\ pcGt = "idle" /\ lasterr = "" /\ session = NoSession

MaskIdle ==
  /\ chain_code = <<>> /\ image_dims = <<0, 0>> /\ anno_image = Unallocated
  /\ pos = <<0, 0>> /\ chainIndex = 0 /\ pcMask = "idle"

MatlabIdle == GtIdle /\ MaskIdle

(***************************************************************************)
(* checkCalibrationFunctions (lines 466-504) as a loop: one step per call  *)
(* of a calibration function.  i counts from 0 as in the source.           *)
(***************************************************************************)
CalInit ==
  /\ MainIdle /\ FileIdle /\ PnmIdle /\ NormIdle /\ MatlabIdle
  /\ i = 0
  /\ inVal = 0
  /\ outVal = 0
  /\ okVal = TRUE
  /\ pcCheck = "call"

\* Lines 489-493: call the function, then test outVal against the maximum.
CallCalibration ==
  /\ pcCheck = "call"
  /\ \E r \in {Calibrate(calibrationFuncs[i + 1], inVal)} :
       \E written \in r.out :
         /\ outVal' = r.val
         /\ okVal' = r.ok
         /\ IF r.val > maxUnsignedIntWithNumBits
              THEN /\ stdout' = stdout \o written
                        \o RangeProblemMessage(calibrationFuncs[i + 1], inVal)
                   /\ pcCheck' = "false"
              ELSE /\ stdout' = stdout \o written
                   /\ pcCheck' = "test"
  /\ UNCHANGED <<i, inVal>>
  /\ UNCHANGED <<pc, argc, argRows, argCols, digitizer, numRows, numCols,
                 calibrationFunc, status, exitCode, stderr>>
  /\ UNCHANGED <<fileVars, pnmVars, normVars, matlabVars>>

\* The loop headers of lines 479 and 487, and the return of line 503.
NextInput ==
  /\ pcCheck = "test"
  /\ IF inVal < maxUnsignedIntWithNumBits
       THEN /\ inVal' = inVal + 1
            /\ pcCheck' = "call"
            /\ UNCHANGED <<i, outVal>>
       ELSE IF i + 1 < 4
              THEN /\ i' = i + 1
                   /\ inVal' = 0
                   /\ outVal' = 0
                   /\ pcCheck' = "call"
              ELSE /\ pcCheck' = "true"
                   /\ UNCHANGED <<i, inVal, outVal>>
  /\ UNCHANGED okVal
  /\ UNCHANGED <<mainVars, fileVars, pnmVars, normVars, matlabVars>>

CalNext == CallCalibration \/ NextInput

SpecCal == CalInit /\ [][CalNext]_vars

\* checkCalibrationFunctions for the functions funcs, as [ok, out]: the
\* value returned, false at the first output that exceeds the maximum
\* (lines 492-497), and the set of the texts it can write to std::cout.
checkCalibrationFunctions(funcs) ==
  LET Fails(k, v) == Calibrate(funcs[k], v).val > maxUnsignedIntWithNumBits
      k0 == CHOOSE k \in 1..Len(funcs) :
              /\ \E v \in 0..maxUnsignedIntWithNumBits : Fails(k, v)
              /\ \A j \in 1..(k - 1) :
                    \A v \in 0..maxUnsignedIntWithNumBits : ~Fails(j, v)
      v0 == CHOOSE v \in 0..maxUnsignedIntWithNumBits :
              Fails(k0, v) /\ \A u \in 0..(v - 1) : ~Fails(k0, u)
  IN  IF \A k \in 1..Len(funcs) :
            \A v \in 0..maxUnsignedIntWithNumBits : ~Fails(k, v)
        THEN [ok |-> TRUE, out |-> {<<>>}]
        ELSE [ok |-> FALSE,
              out |-> { written \o RangeProblemMessage(funcs[k0], v0) :
                          written \in Calibrate(funcs[k0], v0).out }]

(***************************************************************************)
(* od2NormGreyLevel (lines 177-205) statement by statement, on optical     *)
(* densities drawn from a grid that puts the scaled value (65535/4)*od a   *)
(* quarter or three quarters above every integer 0..GridTop, and from the  *)
(* densities of the howtek-mgh profile.                                    *)
(***************************************************************************)
GridBeyond == 8

GridTop == maxUnsignedIntWithNumBits + GridBeyond

GridOD(k) == FxRatio(4 * k + 1 + 2 * (k % 2), maxUnsignedIntWithNumBits)

GridODs(top) == {GridOD(k) : k \in 0..top}

ProfileODs == {howtekMghOD(raw) : raw \in 0..4006} \cup {Fx(1, 0, 0), FxLit(maxOD, 0, 0)}

\* Densities above maxOD whose seventh significant digit is a 5 followed
\* by zeros: 4.000085, 4.000065, 4.000075 and 4.5000050.
HalfwayODs ==
  {FxLit(4, 850, 0), FxLit(4, 650, 0), FxLit(4, 750, 0), FxLit(4, 5000050, 0)}

NormInit ==
  /\ MainIdle /\ FileIdle /\ PnmIdle /\ CalIdle /\ MatlabIdle
  /\ \/ od \in GridODs(GridTop)
     \/ od \in ProfileODs
     \/ od \in HalfwayODs
  /\ retVal = 0
  /\ pcNorm = "scale"

\* Line 179: scale the density and convert the product to unsigned int.
NormScale ==
  /\ pcNorm = "scale"
  /\ retVal' = DoubleToUnsigned(od)
  /\ pcNorm' = "range"
  /\ UNCHANGED <<od, mainVars, fileVars, pnmVars, calVars, matlabVars>>

\* Lines 180-185: a value above the maximum makes the function return false.
NormRange ==
  /\ pcNorm = "range"
  /\ IF retVal > maxUnsignedIntWithNumBits
       THEN /\ \E line \in OutOfRangeMessage(od) :
                 stdout' = Append(stdout, line)
            /\ pcNorm' = "false"
       ELSE /\ pcNorm' = "invert"
            /\ UNCHANGED stdout
  /\ UNCHANGED <<pc, argc, argRows, argCols, digitizer, numRows, numCols,
                 calibrationFunc, status, exitCode, stderr>>
  /\ UNCHANGED <<od, retVal, fileVars, pnmVars, calVars, matlabVars>>

\* Line 188: uninvert.
NormInvert ==
  /\ pcNorm = "invert"
  /\ retVal' = maxUnsignedIntWithNumBits - retVal
  /\ pcNorm' = "compand"
  /\ UNCHANGED <<od, mainVars, fileVars, pnmVars, calVars, matlabVars>>

\* Lines 193-204: quadratic companding, then return true.
NormCompand ==
  /\ pcNorm = "compand"
  /\ retVal' = Compand(retVal)
  /\ pcNorm' = "true"
  /\ UNCHANGED <<od, mainVars, fileVars, pnmVars, calVars, matlabVars>>

NormNext == NormScale \/ NormRange \/ NormInvert \/ NormCompand

SpecNorm == NormInit /\ [][NormNext]_vars

(***************************************************************************)
(* Inputs of the program: command-line arguments and the input file.       *)
(***************************************************************************)
MaxRows == 2

MaxCols == 6

\* Longest input file given to makePnmFile on its own: two bytes more than
\* the largest declared image needs.
MaxBytes == 2 * MaxRows * MaxCols + 2

\* Longest input file given to the whole program.
MaxMainBytes == 5

\* The text of a non-negative number, as a sequence of characters.
DigitChars == <<"0", "1", "2", "3", "4", "5", "6", "7", "8", "9">>

RECURSIVE DecStr(_)
DecStr(n) ==
  IF n < 10 THEN <<DigitChars[n + 1]>>
  ELSE Append(DecStr(n \div 10), DigitChars[(n % 10) + 1])

\* Argument texts that are not plain numbers.
ExtraArgs ==
  { <<"x">>, <<"-", "1">>, <<" ", "1", "x">>, <<"\t", "+", "2">>,
    <<"4", "2", "9", "4", "9", "6", "7", "2", "9", "7">> }

RowArgs == {DecStr(n) : n \in 0..MaxRows} \cup ExtraArgs

ColArgs == {DecStr(n) : n \in 0..MaxCols} \cup ExtraArgs

DigitizerArgs == {dba, howtek_mgh, howtek_ismd, lumisys, "other"}

ArgCounts == {4, 5}

DigitValue(c) ==
  CASE c = "0" -> 0 [] c = "1" -> 1 [] c = "2" -> 2 [] c = "3" -> 3
    [] c = "4" -> 4 [] c = "5" -> 5 [] c = "6" -> 6 [] c = "7" -> 7
    [] c = "8" -> 8 [] c = "9" -> 9 [] OTHER -> -1

\* The white space atoi skips: the characters of isspace, which are the
\* space, \t, \n, the vertical tab, \f and \r.
RECURSIVE SkipSpaces(_, _)
SkipSpaces(s, k) ==
  IF k <= Len(s) /\ s[k] \in {" ", "\t", "\n", "", "\f", "\r"}
    THEN SkipSpaces(s, k + 1)
    ELSE k

\* atoi (lines 522, 524): skip white space, take an optional sign, then the
\* longest run of digits; text without digits gives 0.  The C library
\* computes (int) strtol(s, NULL, 10): the number as a 64-bit long, which
\* is LONG_MAX or LONG_MIN when the digits exceed it, and of that the low
\* 32 bits as a signed int.  The magnitude is held in four 16-bit parts,
\* least significant first; big says that it has passed 2^64.
atoi(s) ==
  LET k == SkipSpaces(s, 1)
      negative == k <= Len(s) /\ s[k] = "-"
      first == IF k <= Len(s) /\ s[k] \in {"-", "+"} THEN k + 1 ELSE k
      stop == CHOOSE e \in first..(Len(s) + 1) :
                /\ e = Len(s) + 1 \/ DigitValue(s[e]) < 0
                /\ \A j \in first..(e - 1) : DigitValue(s[j]) >= 0
      Times10(a, digit) ==
        LET t0 == 10 * a.part[1] + digit
            t1 == 10 * a.part[2] + (t0 \div 65536)
            t2 == 10 * a.part[3] + (t1 \div 65536)
            t3 == 10 * a.part[4] + (t2 \div 65536)
        IN  [part |-> <<t0 % 65536, t1 % 65536, t2 % 65536, t3 % 65536>>,
             big |-> a.big \/ t3 >= 65536]
      acc[j \in (first - 1)..(stop - 1)] ==
        IF j = first - 1 THEN [part |-> <<0, 0, 0, 0>>, big |-> FALSE]
        ELSE Times10(acc[j - 1], DigitValue(s[j]))
      m == acc[stop - 1]
      saturated == m.big \/ m.part[4] >= 32768
      low == IF m.part[2] >= 32768
               THEN (m.part[2] - 65536) * 65536 + m.part[1]
               ELSE m.part[2] * 65536 + m.part[1]
  IN  IF negative
        THEN (IF saturated THEN 0
              ELSE IF m.part[2] = 32768 /\ m.part[1] = 0 THEN low
              ELSE -low)
        ELSE (IF saturated THEN -1 ELSE low)

\* Input files: n bytes, the k-th being p[1] + (k-1)*p[2] modulo 256.
Patterns == {<<0, 1>>, <<250, 3>>, <<0, 0>>}

FileOf(p, n) == [k \in 1..n |-> (p[1] + (k - 1) * p[2]) % 256]

Files(maxLen) == {FileOf(p, n) : p \in Patterns, n \in 0..maxLen}

\* Contents the read buffer of line 373 can have before the first read:
\* any value of an unsigned char.
UninitBytes == 0..255

\* The status the caller of the program sees for exit(code).
ProcessStatus(code) == code % 256

(***************************************************************************)
(* Messages (lines 25-35, 381-459) and the PNM comment (lines 310-324).    *)
(***************************************************************************)
syntax_error_msg == ""
rows_not_positive_error_msg == "The number of rows must be positive."
cols_not_positive_error_msg == "The number of cols must be positive."
file_error_msg == "A file error was detected at runtime."
pnm_error_msg == "Could not create the PNM file."
program_error_msg == "Sorry, there is a problem with the program's source code!"
HelpMessage == "ddsmraw2pnm help"
ReadErrorMessage == "A file read error occurred."
ByteErrorMessage(value) ==
  "Error: Read a byte that seemed to have the value " \o ToString(value)
PixelErrorMessage(value) ==
  "Error: A pixel value error was detected. Pixel value is: " \o ToString(value)
SizeErrorMessage(pixels, rows, cols) ==
  "Error: The specified number of pixels seems to be incorrect for the input file. We read "
    \o "\n" \o ToString(pixels) \o " pixels, which is not equal to "
    \o ToString(rows) \o " x " \o ToString(cols) \o "."
outputFile == "<some-ddsm-raw-file>-ddsmraw2pnm.pnm"

\* printf's %u of a non-negative value.
FormatUnsigned(n) == ToString(n)

\* The one character with code c that std::string += (unsigned char) appends.
\* Code 12 is the form feed; the string for code 16 holds the single
\* character DLE.
CharOfCode(c) == CASE c = 12 -> "\f" [] c = 16 -> ""

bitsPerPixel(f) == IF f = dba THEN 16 ELSE 12

getPnmCommentString(f) ==
  "# Generated by ddsmraw2pnm. Original data was digitized at "
    \o CharOfCode(bitsPerPixel(f)) \o " bits/pixel.\n"

\* An unsigned int as its four bytes, the low byte first.
UInt32(n) ==
  <<n % 256, (n \div 256) % 256, (n \div 65536) % 256, (n \div 16777216) % 256>>

\* Column k of the long multiplication of two positive int values by their
\* bytes, with the carry of the column before it.
RECURSIVE MulColumn(_, _, _)
MulColumn(a, b, k) ==
  LET Products[j \in 0..k] ==
        UInt32(a)[j + 1] * UInt32(b)[k - j + 1]
          + (IF j = 0 THEN 0 ELSE Products[j - 1])
  IN  Products[k] + (IF k = 0 THEN 0 ELSE MulColumn(a, b, k - 1) \div 256)

\* (unsigned int)(numRows * numCols) of line 448, as an unsigned int: the low
\* 32 bits of the product.  It is the product itself when that is below
\* 2^31; for a larger product it is what the multiplication instruction
\* leaves.
PixelCount(rows, cols) == [k \in 1..4 |-> MulColumn(rows, cols, k - 1) % 256]

\* numRows * numCols is a multiplication of two int values; when the product
\* is above INT_MAX = 2147483647 its behaviour is undefined.  Compilers
\* either emit the plain multiplication ("wrap") or a checked one that aborts
\* the program ("trap", -ftrapv).
OverflowOutcomes(rows, cols) ==
  IF rows > 2147483647 \div cols THEN {"wrap", "trap"} ELSE {"wrap"}

(***************************************************************************)
(* main (lines 508-610).                                                   *)
(***************************************************************************)
\* exitWith (lines 152-156): print the message to standard error and exit.
exitWith(errorCode, errorMsg) ==
  /\ stderr' = Append(stderr, errorMsg)
  /\ exitCode' = errorCode
  /\ pc' = "exit"

\* The message main passes to exitWith with each code (lines 23-35).
ErrorMsg(code) ==
  CASE code = syntax_error -> syntax_error_msg
    [] code = rows_not_positive_error -> rows_not_positive_error_msg
    [] code = cols_not_positive_error -> cols_not_positive_error_msg
    [] code = file_error -> file_error_msg
    [] code = pnm_error -> pnm_error_msg
    [] code = program_error -> program_error_msg

Init ==
  /\ pc = "main"
  /\ argc \in ArgCounts
  /\ argRows = <<>> /\ argCols = <<>> /\ digitizer = ""
  /\ numRows = 0 /\ numCols = 0 /\ calibrationFunc = "NULL"
  /\ status = 0 /\ exitCode = 0 /\ stdout = <<>> /\ stderr = <<>>
  /\ FileIdle /\ PnmIdle /\ CalIdle /\ NormIdle /\ MatlabIdle

\* Lines 512-517: the argument count.
CheckArgc ==
  /\ pc = "main"
  /\ IF argc # 5
       THEN /\ stdout' = Append(stdout, HelpMessage)
            /\ exitWith(syntax_error, ErrorMsg(syntax_error))
       ELSE /\ pc' = "args"
            /\ UNCHANGED <<stdout, stderr, exitCode>>
  /\ UNCHANGED <<argc, argRows, argCols, digitizer, numRows, numCols,
                 calibrationFunc, status>>
  /\ UNCHANGED <<fileVars, pnmVars, calVars, normVars, matlabVars>>

\* Lines 540-559: the calibration function a digitizer name selects.
SelectCalibration(d) ==
  IF d = dba THEN dba
  ELSE IF d = howtek_mgh THEN howtek_mgh
  ELSE IF d = howtek_ismd THEN howtek_ismd
  ELSE IF d = lumisys THEN lumisys
  ELSE "NULL"

\* Lines 519-559: read the arguments, run the self-check of the calibration
\* functions, select the calibration function.
ParseArguments ==
  /\ pc = "args"
  /\ \E checked \in {checkCalibrationFunctions(calibrationFuncs)} :
       \E written \in checked.out :
       \E r \in RowArgs, c \in ColArgs, d \in DigitizerArgs :
          /\ argRows' = r
          /\ argCols' = c
          /\ digitizer' = d
          /\ numRows' = atoi(r)
          /\ numCols' = atoi(c)
          /\ pcCheck' = IF checked.ok THEN "true" ELSE "false"
          /\ IF ~checked.ok
               THEN /\ stdout' = stdout \o written
                    /\ exitWith(program_error, ErrorMsg(program_error))
                    /\ UNCHANGED calibrationFunc
               ELSE /\ calibrationFunc' = SelectCalibration(d)
                    /\ UNCHANGED stdout
                    /\ IF SelectCalibration(d) = "NULL"
                         THEN exitWith(syntax_error, ErrorMsg(syntax_error))
                         ELSE /\ pc' = "range"
                              /\ UNCHANGED <<stderr, exitCode>>
  /\ UNCHANGED <<argc, status, i, inVal, outVal, okVal>>
  /\ UNCHANGED <<fileVars, pnmVars, normVars, matlabVars>>

\* Variant: the columns are tested before the rows.
DimensionErrorColsFirst(rows, cols) ==
  IF cols < 1 THEN cols_not_positive_error
  ELSE IF rows < 1 THEN rows_not_positive_error
  ELSE success

\* Lines 567-568: the error code for the declared dimensions, success if
\* both are sensible.
DimensionError(rows, cols) ==
  IF rows < 1 THEN rows_not_positive_error
  ELSE IF cols < 1 THEN cols_not_positive_error
  ELSE success

CheckRowsCols ==
  /\ pc = "range"
  /\ IF DimensionError(numRows, numCols) # success
       THEN exitWith(DimensionError(numRows, numCols),
                     ErrorMsg(DimensionError(numRows, numCols)))
       ELSE /\ pc' = "open"
            /\ UNCHANGED <<stderr, exitCode>>
  /\ UNCHANGED <<argc, argRows, argCols, digitizer, numRows, numCols,
                 calibrationFunc, status, stdout>>
  /\ UNCHANGED <<fileVars, pnmVars, calVars, normVars, matlabVars>>

\* Lines 571-588: both fopen calls, then the handling of a NULL pointer.
\* The environment decides whether each open succeeds and what the input
\* file holds.
OpenFiles ==
  /\ pc = "open"
  /\ \E inOK \in BOOLEAN, outOK \in BOOLEAN, f \in Files(MaxMainBytes) :
        /\ inOK \/ f = <<>>
        /\ inFile' = f
        /\ outCreated' = outOK
        /\ input' = IF ~inOK THEN "NULL" ELSE IF outOK THEN "open" ELSE "closed"
        /\ output' = IF ~outOK THEN "NULL" ELSE IF inOK THEN "open" ELSE "closed"
        /\ inCloses' = IF inOK /\ ~outOK THEN inCloses + 1 ELSE inCloses
        /\ outCloses' = IF outOK /\ ~inOK THEN outCloses + 1 ELSE outCloses
        /\ IF inOK /\ outOK
             THEN /\ pc' = "pnm"
                  /\ UNCHANGED <<stderr, exitCode>>
             ELSE exitWith(file_error, ErrorMsg(file_error))
  /\ UNCHANGED <<inPos, inEof, outText>>
  /\ UNCHANGED <<argc, argRows, argCols, digitizer, numRows, numCols,
                 calibrationFunc, status, stdout>>
  /\ UNCHANGED <<pnmVars, calVars, normVars, matlabVars>>

(***************************************************************************)
(* makePnmFile (lines 334-460).                                            *)
(***************************************************************************)
maxCharsPerPixel == 5

breakAroundCol == 50

\* Variant: the first byte read is taken for an even byte.
InitialOddByteEven == FALSE

\* Line 348: the first byte read is an odd byte.
InitialOddByte == TRUE

\* Line 401: the odd byte is the most significant one.
MostSignificant(byteValue) == 256 * byteValue

\* Lines 340-375: the header, then the initial values of the locals.  The
\* read buffer of line 373 is not initialised.
WriteHeader ==
  /\ pc = "pnm"
  /\ outText' = outText \o
        << "P2\n",
           getPnmCommentString(calibrationFunc),
           FormatUnsigned(numCols) \o "\n",
           FormatUnsigned(numRows) \o "\n",
           FormatUnsigned(maxUnsignedIntWithNumBits) \o "\n" >>
  /\ oddByte' = InitialOddByte
  /\ thisPixel' = 0
  /\ numPixels' = 0
  /\ charColCounter' = 0
  /\ okSoFar' = TRUE
  /\ thisByte' = <<>>
  /\ pc' = "loop"
  /\ UNCHANGED <<argc, argRows, argCols, digitizer, numRows, numCols,
                 calibrationFunc, status, exitCode, stdout, stderr>>
  /\ UNCHANGED <<inFile, inPos, inEof, input, output, inCloses, outCloses,
                 outCreated>>
  /\ UNCHANGED <<calVars, normVars, matlabVars>>

\* Lines 376-440 without a read fault: one iteration of the loop.  fread at
\* the end of the file stores nothing and sets the end-of-file indicator;
\* line 387 then reads what the buffer held before, which for a buffer
\* that was never written is any of UninitBytes.
ReadByte ==
  /\ pc = "loop"
  /\ ~inEof
  /\ LET atEnd == inPos >= Len(inFile)
     IN  \E byteValue \in (IF ~atEnd THEN {inFile[inPos + 1]}
                          ELSE IF thisByte = <<>> THEN UninitBytes
                          ELSE {thisByte[1]}) :
         /\ inPos' = IF atEnd THEN inPos ELSE inPos + 1
         /\ inEof' = atEnd
         /\ thisByte' = IF atEnd THEN thisByte ELSE <<byteValue>>
         /\ IF byteValue < 0 \/ byteValue > 255
              THEN /\ stdout' = Append(stdout, ByteErrorMessage(byteValue))
                   /\ status' = -1
                   /\ pc' = "returned"
                   /\ UNCHANGED <<outText, oddByte, thisPixel, numPixels,
                                  charColCounter, okSoFar>>
              ELSE IF oddByte
                THEN /\ thisPixel' = MostSignificant(byteValue)
                     /\ oddByte' = ~oddByte
                     /\ UNCHANGED <<outText, numPixels, charColCounter,
                                    okSoFar, stdout, status, pc>>
                ELSE \E r \in {Calibrate(calibrationFunc, thisPixel + byteValue)} :
                     \E inRange \in {checkRange(r.val)}, written \in r.out :
                     /\ thisPixel' = r.val
                     /\ okSoFar' = r.ok
                     /\ IF ~inRange.ok \/ ~r.ok
                          THEN /\ stdout' = stdout \o written \o inRange.out
                                    \o <<PixelErrorMessage(r.val)>>
                               /\ status' = -1
                               /\ pc' = "returned"
                               /\ UNCHANGED <<outText, oddByte, numPixels,
                                              charColCounter>>
                          ELSE /\ IF (charColCounter + 1) * maxCharsPerPixel >= breakAroundCol
                                    THEN /\ outText' = outText \o
                                              <<FormatUnsigned(r.val) \o " ", "\n">>
                                         /\ charColCounter' = 0
                                    ELSE /\ outText' = Append(outText,
                                              FormatUnsigned(r.val) \o " ")
                                         /\ charColCounter' = charColCounter + 1
                               /\ numPixels' = numPixels + 1
                               /\ oddByte' = ~oddByte
                               /\ stdout' = stdout \o written \o inRange.out
                               /\ UNCHANGED <<status, pc>>
  /\ UNCHANGED <<argc, argRows, argCols, digitizer, numRows, numCols,
                 calibrationFunc, exitCode, stderr>>
  /\ UNCHANGED <<inFile, input, output, inCloses, outCloses, outCreated>>
  /\ UNCHANGED <<calVars, normVars, matlabVars>>

\* Lines 378-385: the read sets the error indicator of the stream.
ReadFault ==
  /\ pc = "loop"
  /\ ~inEof
  /\ stdout' = Append(stdout, ReadErrorMessage)
  /\ status' = -1
  /\ pc' = "returned"
  /\ UNCHANGED <<argc, argRows, argCols, digitizer, numRows, numCols,
                 calibrationFunc, exitCode, stderr>>
  /\ UNCHANGED <<fileVars, pnmVars, calVars, normVars, matlabVars>>

\* Lines 376 and 445-459: the loop ends when the end-of-file indicator is
\* set; the number of pixels written is compared with the declared size.
CheckPixelCount ==
  /\ pc = "loop"
  /\ inEof
  /\ \E outcome \in OverflowOutcomes(numRows, numCols) :
       IF outcome = "trap"
         THEN /\ pc' = "aborted"
              /\ UNCHANGED <<status, stdout>>
         ELSE /\ IF UInt32(numPixels) = PixelCount(numRows, numCols)
                   THEN /\ status' = 0
                        /\ UNCHANGED stdout
                   ELSE /\ stdout' = Append(stdout,
                             SizeErrorMessage(numPixels, numRows, numCols))
                        /\ status' = image_size_error
              /\ pc' = "returned"
  /\ UNCHANGED <<argc, argRows, argCols, digitizer, numRows, numCols,
                 calibrationFunc, exitCode, stderr>>
  /\ UNCHANGED <<fileVars, pnmVars, calVars, normVars, matlabVars>>

\* Lines 591-609: the exit code main chooses for a status of makePnmFile.
FinishCode(st) == IF st # 0 THEN pnm_error ELSE success

\* A cleanup that forgets the output stream: fclose(input) only.
FinishLeavesOutputOpen ==
  /\ pc = "returned"
  /\ input' = "closed"
  /\ inCloses' = inCloses + 1
  /\ IF FinishCode(status) # success
       THEN /\ exitWith(FinishCode(status), ErrorMsg(FinishCode(status)))
            /\ UNCHANGED stdout
       ELSE /\ stdout' = Append(stdout, outputFile)
            /\ exitCode' = success
            /\ pc' = "exit"
            /\ UNCHANGED stderr
  /\ UNCHANGED <<argc, argRows, argCols, digitizer, numRows, numCols,
                 calibrationFunc, status>>
  /\ UNCHANGED <<inFile, inPos, inEof, outCreated, outText, output, outCloses>>
  /\ UNCHANGED <<pnmVars, calVars, normVars, matlabVars>>

\* Lines 590-609: close both files; exit with pnm_error if makePnmFile
\* returned a non-zero status, else print the name of the output file.
Finish ==
  /\ pc = "returned"
  /\ input' = "closed"
  /\ output' = "closed"
  /\ inCloses' = inCloses + 1
  /\ outCloses' = outCloses + 1
  /\ IF FinishCode(status) # success
       THEN /\ exitWith(FinishCode(status), ErrorMsg(FinishCode(status)))
            /\ UNCHANGED stdout
       ELSE /\ stdout' = Append(stdout, outputFile)
            /\ exitCode' = success
            /\ pc' = "exit"
            /\ UNCHANGED stderr
  /\ UNCHANGED <<argc, argRows, argCols, digitizer, numRows, numCols,
                 calibrationFunc, status>>
  /\ UNCHANGED <<inFile, inPos, inEof, outCreated, outText>>
  /\ UNCHANGED <<pnmVars, calVars, normVars, matlabVars>>

PnmNext == WriteHeader \/ ReadByte \/ ReadFault \/ CheckPixelCount

Next ==
  \/ CheckArgc
  \/ ParseArguments
  \/ CheckRowsCols
  \/ OpenFiles
  \/ PnmNext
  \/ Finish

Spec == Init /\ [][Next]_vars

\* makePnmFile on its own: every call main can make with dimensions within
\* the bounds and an input file of up to MaxBytes bytes.
PnmInit ==
  /\ pc = "pnm"
  /\ argc = 5
  /\ numRows \in 1..MaxRows
  /\ numCols \in 1..MaxCols
  /\ argRows = DecStr(numRows)
  /\ argCols = DecStr(numCols)
  /\ calibrationFunc \in {dba, howtek_mgh, howtek_ismd, lumisys}
  /\ digitizer = calibrationFunc
  /\ status = 0 /\ exitCode = 0 /\ stdout = <<>> /\ stderr = <<>>
  /\ inFile \in Files(MaxBytes)
  /\ inPos = 0 /\ inEof = FALSE
  /\ input = "open" /\ output = "open" /\ inCloses = 0 /\ outCloses = 0
  /\ outCreated = TRUE /\ outText = <<>>
  /\ PnmIdle /\ NormIdle /\ MatlabIdle
  /\ i = 0 /\ inVal = 0 /\ outVal = 0 /\ okVal = TRUE /\ pcCheck = "true"

SpecPnm == PnmInit /\ [][PnmNext]_vars

\* makePnmFile with declared dimensions anywhere in the positive int values
\* and an input file of a few bytes.
MaxWideBytes == 4
WideSizes ==
  {1, 2, 3, 6, 641, 32768, 46341, 65535, 65536, 65537, 131072, 6700417,
   715827883, 1073741824, 2147483647}

WideInit ==
  /\ pc = "pnm"
  /\ argc = 5
  /\ numRows \in WideSizes
  /\ numCols \in WideSizes
  /\ argRows = DecStr(numRows)
  /\ argCols = DecStr(numCols)
  /\ calibrationFunc \in {dba, lumisys}
  /\ digitizer = calibrationFunc
  /\ status = 0 /\ exitCode = 0 /\ stdout = <<>> /\ stderr = <<>>
  /\ inFile \in {[k \in 1..n |-> 7] : n \in 0..MaxWideBytes}
  /\ inPos = 0 /\ inEof = FALSE
  /\ input = "open" /\ output = "open" /\ inCloses = 0 /\ outCloses = 0
  /\ outCreated = TRUE /\ outText = <<>>
  /\ PnmIdle /\ NormIdle /\ MatlabIdle
  /\ i = 0 /\ inVal = 0 /\ outVal = 0 /\ okVal = TRUE /\ pcCheck = "true"

SpecWide == WideInit /\ [][PnmNext]_vars

\* main from the tests of the declared dimensions on (line 567): every
\* state in which ParseArguments leaves the program when the self-check has
\* returned true and the digitizer name is one of the four.
ConvertInit ==
  /\ pc = "range"
  /\ argc = 5
  /\ argRows \in RowArgs
  /\ argCols \in ColArgs
  /\ digitizer \in {dba, howtek_mgh, howtek_ismd, lumisys}
  /\ numRows = atoi(argRows)
  /\ numCols = atoi(argCols)
  /\ calibrationFunc = SelectCalibration(digitizer)
  /\ status = 0 /\ exitCode = 0 /\ stdout = <<>> /\ stderr = <<>>
  /\ FileIdle /\ PnmIdle /\ NormIdle /\ MatlabIdle
  /\ i = 0 /\ inVal = 0 /\ outVal = 0 /\ okVal = TRUE /\ pcCheck = "true"

ConvertNext == CheckRowsCols \/ OpenFiles \/ PnmNext \/ Finish

SpecConvert == ConvertInit /\ [][ConvertNext]_vars

(***************************************************************************)
(* get_ddsm_groundtruth.m.  Text is a sequence of one-character strings, a *)
(* file a sequence of lines.  The literal parts of the regular expressions *)
(* of lines 142-255 (a trailing _ stands for the space that ends them):    *)
(***************************************************************************)
Keyword ==
  [ TOTAL_ABNORMALITIES_ |->
      <<"T", "O", "T", "A", "L", "_", "A", "B", "N", "O", "R", "M", "A", "L", "I", "T", "I", "E", "S", " ">>,
    ABNORMALITY_ |->
      <<"A", "B", "N", "O", "R", "M", "A", "L", "I", "T", "Y", " ">>,
    LESION_TYPE_ |->
      <<"L", "E", "S", "I", "O", "N", "_", "T", "Y", "P", "E", " ">>,
    ASSESSMENT_ |->
      <<"A", "S", "S", "E", "S", "S", "M", "E", "N", "T", " ">>,
    SUBTLETY_ |->
      <<"S", "U", "B", "T", "L", "E", "T", "Y", " ">>,
    PATHOLOGY_ |->
      <<"P", "A", "T", "H", "O", "L", "O", "G", "Y", " ">>,
    TOTAL_OUTLINES_ |->
      <<"T", "O", "T", "A", "L", "_", "O", "U", "T", "L", "I", "N", "E", "S", " ">>,
    BOUNDARY |->
      <<"B", "O", "U", "N", "D", "A", "R", "Y">>,
    CORE |->
      <<"C", "O", "R", "E">> ]

\* regexp(str, pat) for a literal pattern: the start of the leftmost
\* occurrence of pat anywhere in str, 0 if there is none (MATLAB: empty).
regexp(str, pat) ==
  LET starts == {k \in 1..(Len(str) - Len(pat) + 1) :
                   SubSeq(str, k, k + Len(pat) - 1) = pat}
  IN  IF starts = {} THEN 0
      ELSE CHOOSE k \in starts : \A j \in starts : k <= j

\* The token (.*) of 'KEYWORD (.*)': the rest of the line after the leftmost
\* occurrence of the literal part.  Used only when regexp(str, pat) # 0.
TokenAfter(str, pat) ==
  SubSeq(str, regexp(str, pat) + Len(pat), Len(str))

\* The longest run of digits of str that starts at position k.
RECURSIVE DigitRun(_, _)
DigitRun(str, k) ==
  IF k > Len(str) \/ DigitValue(str[k]) < 0 THEN <<>>
  ELSE <<str[k]>> \o DigitRun(str, k + 1)

\* Line 142: the token (\d+) of the leftmost match of
\* 'TOTAL_ABNORMALITIES (\d+)'; <<>> if the line has no match.
RECURSIVE NumberTokenFrom(_, _)
NumberTokenFrom(str, k) ==
  LET pat == Keyword.TOTAL_ABNORMALITIES_
  IN  IF k + Len(pat) - 1 > Len(str) THEN <<>>
      ELSE IF /\ SubSeq(str, k, k + Len(pat) - 1) = pat
              /\ DigitRun(str, k + Len(pat)) # <<>>
             THEN DigitRun(str, k + Len(pat))
      ELSE NumberTokenFrom(str, k + 1)

\* num2str of a non-negative integer (lines 164, 172).
num2str(n) == DecStr(n)

\* The text between the brackets of the expression str2num evaluates, cut
\* into its parts: blanks and tabs separate elements and so does a comma,
\* which is kept as a part of its own.
RECURSIVE SplitAtSpaces(_, _, _)
SplitAtSpaces(str, k, token) ==
  IF k > Len(str) THEN (IF token = <<>> THEN <<>> ELSE <<token>>)
  ELSE IF str[k] = " " \/ str[k] = "\t"
         THEN (IF token = <<>> THEN <<>> ELSE <<token>>)
                 \o SplitAtSpaces(str, k + 1, <<>>)
  ELSE IF str[k] = ","
         THEN (IF token = <<>> THEN <<>> ELSE <<token>>) \o << <<",">> >>
                 \o SplitAtSpaces(str, k + 1, <<>>)
  ELSE SplitAtSpaces(str, k + 1, Append(token, str[k]))

\* str2num (lines 143, 206, 212, 225, 291) evaluates the expression [str]
\* and returns [] (here <<>>) when the evaluation raises an error.  Two
\* kinds of text are covered.  A row of integers, each a run of digits
\* with any number of signs directly before it, separated by blanks, tabs
\* or single commas, gives the row of their values; the empty row is [].
\* A text of such integers, commas and the name x, which is no variable
\* and no function, gives [].  Every other text (a decimal point, an
\* exponent, an operator between two operands, a semicolon, parentheses,
\* another name, a comma that does not stand between two elements) is left
\* undefined.
str2num(str) ==
  LET parts == SplitAtSpaces(str, 1, <<>>)
      IsComma(part) == part = <<",">>
      IsName(part) == part = <<"x">>
      elements == SelectSeq(parts, LAMBDA part : ~IsComma(part))
      SignCount(part) ==
        CHOOSE n \in 0..Len(part) :
          /\ \A j \in 1..n : part[j] \in {"+", "-"}
          /\ n = Len(part) \/ part[n + 1] \notin {"+", "-"}
      Digits(part) == SubSeq(part, SignCount(part) + 1, Len(part))
      IsIntegerLiteral(part) ==
        /\ Digits(part) # <<>>
        /\ \A j \in 1..Len(Digits(part)) : DigitValue(Digits(part)[j]) >= 0
      Magnitude(digits) ==
        LET value[j \in 0..Len(digits)] ==
              IF j = 0 THEN 0 ELSE 10 * value[j - 1] + DigitValue(digits[j])
        IN  value[Len(digits)]
      Minuses(part) == Cardinality({j \in 1..SignCount(part) : part[j] = "-"})
      IntegerOfLiteral(part) ==
        IF Minuses(part) % 2 = 1 THEN -Magnitude(Digits(part))
        ELSE Magnitude(Digits(part))
      CommasBetweenElements ==
        \A k \in 1..Len(parts) :
           IsComma(parts[k]) =>
             /\ 1 < k /\ k < Len(parts)
             /\ ~IsComma(parts[k - 1]) /\ ~IsComma(parts[k + 1])
  IN  CASE /\ CommasBetweenElements
           /\ \A k \in 1..Len(elements) : IsIntegerLiteral(elements[k])
             -> [k \in 1..Len(elements) |-> IntegerOfLiteral(elements[k])]
        [] /\ \E k \in 1..Len(elements) : IsName(elements[k])
           /\ \A k \in 1..Len(elements) :
                 IsName(elements[k]) \/ IsIntegerLiteral(elements[k])
             -> <<>>

(***************************************************************************)
(* Values.  A struct carries the set of its field names next to the field  *)
(* values; a field that was never assigned holds <<>>.  An anonymous       *)
(* function @(image_dims) make_annotation_image(image_dims, bc_text{i})    *)
(* holds the text of bc_text{i} captured when it was created.              *)
(***************************************************************************)
FunctionHandle(line) == [is_function |-> TRUE, chain_code |-> line]

\* Lines 248-249: boundary is the empty char array '', which is no
\* function, and cores the empty cell array.
NewAnnotations ==
  [boundary |-> [is_function |-> FALSE, chain_code |-> <<>>], cores |-> <<>>]

\* Line 192.
NewAbnormality ==
  [fields |-> {"lesion_type"}, lesion_type |-> <<>>, assessment |-> <<>>,
   subtlety |-> <<>>, pathology |-> <<>>, annotations |-> NewAnnotations]

\* Variant: the parser itself rejects a chain-code line without the '#'.
RECURSIVE BoundaryAndCoresChecked(_, _, _, _)
BoundaryAndCoresChecked(bc_text, k, code_is, annotations) ==
  IF k > Len(bc_text) THEN [ok |-> TRUE, annotations |-> annotations]
  ELSE IF regexp(bc_text[k], Keyword.BOUNDARY) # 0
         THEN BoundaryAndCoresChecked(bc_text, k + 1, "boundary", annotations)
  ELSE IF regexp(bc_text[k], Keyword.CORE) # 0
         THEN BoundaryAndCoresChecked(bc_text, k + 1, "core", annotations)
  ELSE IF bc_text[k] = <<>> \/ bc_text[k][Len(bc_text[k])] # "#"
         THEN [ok |-> FALSE, annotations |-> annotations]
  ELSE IF code_is = "boundary"
         THEN BoundaryAndCoresChecked(bc_text, k + 1, code_is,
                [annotations EXCEPT !.boundary = FunctionHandle(bc_text[k])])
  ELSE IF code_is = "core"
         THEN BoundaryAndCoresChecked(bc_text, k + 1, code_is,
                [annotations EXCEPT
                   !.cores = Append(@, FunctionHandle(bc_text[k]))])
  ELSE [ok |-> FALSE, annotations |-> annotations]

\* Lines 251-275.  code_is is "undefined" until a keyword line has been
\* seen; the switch of line 267 on an undefined variable is an error.
RECURSIVE BoundaryAndCoresFrom(_, _, _, _)
BoundaryAndCoresFrom(bc_text, k, code_is, annotations) ==
  IF k > Len(bc_text) THEN [ok |-> TRUE, annotations |-> annotations]
  ELSE IF regexp(bc_text[k], Keyword.BOUNDARY) # 0
         THEN BoundaryAndCoresFrom(bc_text, k + 1, "boundary", annotations)
  ELSE IF regexp(bc_text[k], Keyword.CORE) # 0
         THEN BoundaryAndCoresFrom(bc_text, k + 1, "core", annotations)
  ELSE IF code_is = "boundary"
         THEN BoundaryAndCoresFrom(bc_text, k + 1, code_is,
                [annotations EXCEPT !.boundary = FunctionHandle(bc_text[k])])
  ELSE IF code_is = "core"
         THEN BoundaryAndCoresFrom(bc_text, k + 1, code_is,
                [annotations EXCEPT
                   !.cores = Append(@, FunctionHandle(bc_text[k]))])
  ELSE [ok |-> FALSE, annotations |-> annotations]

\* Lines 239-275.
parse_boundary_and_cores(bc_text) ==
  BoundaryAndCoresFrom(bc_text, 1, "undefined", NewAnnotations)

\* Variant: a LESION_TYPE line replaces the lesion types found before.
WithLastLesionType(s, this_text) ==
  IF regexp(this_text, Keyword.LESION_TYPE_) = 0 THEN s
  ELSE [s EXCEPT
          !.lesion_type = <<TokenAfter(this_text, Keyword.LESION_TYPE_)>>]

\* Lines 197-201: a LESION_TYPE line adds its value to the lesion types.
WithLesionType(s, this_text) ==
  IF regexp(this_text, Keyword.LESION_TYPE_) = 0 THEN s
  ELSE [s EXCEPT
          !.lesion_type = Append(@, TokenAfter(this_text, Keyword.LESION_TYPE_))]

\* Lines 194-229: the loop over the lines of the block; lines 203-219 set
\* assessment, subtlety and pathology.
RECURSIVE DescriptionFrom(_, _, _)
DescriptionFrom(abnormality_text, k, s) ==
  IF k > Len(abnormality_text) THEN s
  ELSE
    LET this_text == abnormality_text[k]
        WithAssessment(t) ==
          IF regexp(this_text, Keyword.ASSESSMENT_) = 0 THEN t
          ELSE [t EXCEPT
                  !.fields = @ \cup {"assessment"},
                  !.assessment =
                     str2num(TokenAfter(this_text, Keyword.ASSESSMENT_))]
        WithSubtlety(t) ==
          IF regexp(this_text, Keyword.SUBTLETY_) = 0 THEN t
          ELSE [t EXCEPT
                  !.fields = @ \cup {"subtlety"},
                  !.subtlety =
                     str2num(TokenAfter(this_text, Keyword.SUBTLETY_))]
        WithPathology(t) ==
          IF regexp(this_text, Keyword.PATHOLOGY_) = 0 THEN t
          ELSE [t EXCEPT
                  !.fields = @ \cup {"pathology"},
                  !.pathology = TokenAfter(this_text, Keyword.PATHOLOGY_)]
    IN  DescriptionFrom(abnormality_text, k + 1,
          WithPathology(WithSubtlety(WithAssessment(
            WithLesionType(s, this_text)))))

\* Lines 222-227: the index of the last line that matches TOTAL_OUTLINES;
\* 0 stands for the variable never having been assigned.
RECURSIVE total_outlines_line_number(_, _)
total_outlines_line_number(abnormality_text, k) ==
  IF k = 0 THEN 0
  ELSE IF regexp(abnormality_text[k], Keyword.TOTAL_OUTLINES_) # 0 THEN k
  ELSE total_outlines_line_number(abnormality_text, k - 1)

\* Lines 187-232.  ok is FALSE when line 232 reads the unassigned
\* total_outlines_line_number or parse_boundary_and_cores raises an error.
parse_abnormality(abnormality_text) ==
  LET s == DescriptionFrom(abnormality_text, 1, NewAbnormality)
      n == total_outlines_line_number(abnormality_text, Len(abnormality_text))
      bc == parse_boundary_and_cores(
              SubSeq(abnormality_text, n + 1, Len(abnormality_text)))
  IN  IF n = 0 THEN [ok |-> FALSE, abnormality |-> s]
      ELSE IF ~bc.ok THEN [ok |-> FALSE, abnormality |-> s]
      ELSE [ok |-> TRUE,
            abnormality |-> [s EXCEPT !.fields = @ \cup {"annotations"},
                                      !.annotations = bc.annotations]]

\* Lines 164, 172: the pattern ['ABNORMALITY ' num2str(n)].
AbnormalityPattern(n) == Keyword.ABNORMALITY_ \o num2str(n)

\* Variant: the line matching the pattern of the next abnormality ends the
\* loop but stays in the collected lines.
AbnormalityLoopKeepsMarker(abnormality_number, lines, k, state) ==
  LET this_line == lines[k]
      found ==
        IF regexp(this_line, AbnormalityPattern(abnormality_number)) # 0
          THEN ~state.found_abnormality ELSE state.found_abnormality
  IN  IF state.break THEN state
      ELSE IF ~found
        THEN [state EXCEPT !.found_abnormality = FALSE]
      ELSE [found_abnormality |-> TRUE,
            abnormality |-> Append(state.abnormality, this_line),
            break |-> \/ k = Len(lines)
                      \/ regexp(this_line,
                           AbnormalityPattern(abnormality_number + 1)) # 0]

\* Lines 162-180: the body of the loop that collects the lines of one
\* abnormality, for line k.  A line matching the pattern of
\* abnormality_number toggles found_abnormality; while it is set each line is
\* appended, and a line matching the pattern of abnormality_number + 1 is
\* removed again and ends the loop, as does the last line of the file.
AbnormalityLoopBody(abnormality_number, lines, k, state) ==
  LET this_line == lines[k]
      found ==
        IF regexp(this_line, AbnormalityPattern(abnormality_number)) # 0
          THEN ~state.found_abnormality ELSE state.found_abnormality
  IN  IF state.break THEN state
      ELSE IF ~found
        THEN [state EXCEPT !.found_abnormality = FALSE]
      ELSE IF regexp(this_line, AbnormalityPattern(abnormality_number + 1)) # 0
        THEN [found_abnormality |-> TRUE, abnormality |-> state.abnormality,
              break |-> TRUE]
      ELSE [found_abnormality |-> TRUE,
            abnormality |-> Append(state.abnormality, this_line),
            break |-> k = Len(lines)]

\* Lines 161-181: the loop over the lines first..last.  The range is split in
\* two and the state after the first half is computed before the second half
\* starts from it.
RECURSIVE AbnormalityLoop(_, _, _, _, _)
AbnormalityLoop(abnormality_number, lines, first, last, state) ==
  IF first > last THEN state
  ELSE IF first = last
    THEN AbnormalityLoopBody(abnormality_number, lines, first, state)
  ELSE CHOOSE after \in
         {AbnormalityLoop(abnormality_number, lines,
                          ((first + last) \div 2) + 1, last, half) :
            half \in {AbnormalityLoop(abnormality_number, lines, first,
                                      (first + last) \div 2, state)}} : TRUE

\* Lines 159-181.
AbnormalityLines(abnormality_number, lines) ==
  AbnormalityLoop(abnormality_number, lines, 1, Len(lines),
    [found_abnormality |-> FALSE, abnormality |-> <<>>, break |-> FALSE]
  ).abnormality

\* Lines 154-184.
get_abnormality(abnormality_number, lines) ==
  parse_abnormality(AbnormalityLines(abnormality_number, lines))

(***************************************************************************)
(* Overlay files given to get_ddsm_groundtruth.  A file declares a number  *)
(* of abnormalities and holds blocks numbered 1, 2, ...; every block has   *)
(* its own description values and chain codes.  One block of the file, the *)
(* odd one, has the given shape; the others have a boundary and one core.  *)
(***************************************************************************)
MaxAbnormalities == 11

\* Values of the description lines.
Sample ==
  [ MASS |-> <<"M", "A", "S", "S", "_">>,
    CALC |-> <<"C", "A", "L", "C", "_">>,
    BENIGN |-> <<"B", "E", "N", "I", "G", "N">>,
    MALIGNANT |-> <<"M", "A", "L", "I", "G", "N", "A", "N", "T">> ]

\* The boundary of block k: a closed square of two by two pixels whose start
\* is in column k of row 1; its cores: single pixels in rows 2 and 3.
BoundaryChain(k) ==
  num2str(k) \o <<" ", "1", " ", "2", " ", "4", " ", "6", " ", "0", " ", "#">>

CoreChain(k, row) ==
  num2str(k) \o <<" ">> \o num2str(row) \o <<" ", "#">>

WithoutSentinel(line) == SubSeq(line, 1, Len(line) - 2)

Shapes ==
  {"boundary_only", "one_core", "two_cores", "boundary_without_sentinel",
   "core_without_sentinel", "no_total_outlines", "no_boundary",
   "no_keyword", "blank_last"}

DescriptionLines(k, shape) ==
  << Keyword.ABNORMALITY_ \o num2str(k),
     Keyword.LESION_TYPE_ \o Sample.MASS \o num2str(k) >>
  \o (IF shape = "two_cores"
        THEN << Keyword.LESION_TYPE_ \o Sample.CALC \o num2str(k) >> ELSE <<>>)
  \o << Keyword.ASSESSMENT_ \o num2str((k % 5) + 1),
        Keyword.SUBTLETY_ \o num2str(((k + 2) % 5) + 1),
        Keyword.PATHOLOGY_ \o (IF k % 2 = 0 THEN Sample.BENIGN ELSE Sample.MALIGNANT) >>
  \o (IF shape = "no_total_outlines" THEN <<>>
      ELSE << Keyword.TOTAL_OUTLINES_ \o
                num2str(CASE shape = "boundary_only" -> 1
                          [] shape = "two_cores" -> 3
                          [] OTHER -> 2) >>)

OutlineLines(k, shape) ==
  CASE shape = "boundary_only" ->
         << Keyword.BOUNDARY, BoundaryChain(k) >>
    [] shape = "one_core" ->
         << Keyword.BOUNDARY, BoundaryChain(k),
            <<"\t">> \o Keyword.CORE, CoreChain(k, 2) >>
    [] shape = "two_cores" ->
         << Keyword.BOUNDARY, BoundaryChain(k),
            <<"\t">> \o Keyword.CORE, CoreChain(k, 2),
            <<"\t">> \o Keyword.CORE, CoreChain(k, 3) >>
    [] shape = "boundary_without_sentinel" ->
         << Keyword.BOUNDARY, WithoutSentinel(BoundaryChain(k)),
            <<"\t">> \o Keyword.CORE, CoreChain(k, 2) >>
    [] shape = "core_without_sentinel" ->
         << Keyword.BOUNDARY, BoundaryChain(k),
            <<"\t">> \o Keyword.CORE, WithoutSentinel(CoreChain(k, 2)) >>
    [] shape = "no_total_outlines" ->
         << Keyword.BOUNDARY, BoundaryChain(k) >>
    [] shape = "no_boundary" ->
         << <<"\t">> \o Keyword.CORE, CoreChain(k, 2) >>
    [] shape = "no_keyword" ->
         << BoundaryChain(k), <<"\t">> \o Keyword.CORE, CoreChain(k, 2) >>
    [] shape = "blank_last" ->
         << Keyword.BOUNDARY, BoundaryChain(k),
            <<"\t">> \o Keyword.CORE, CoreChain(k, 2), <<>> >>

BlockLines(k, shape) == DescriptionLines(k, shape) \o OutlineLines(k, shape)

RECURSIVE BlocksUpTo(_, _, _)
BlocksUpTo(k, odd, shape) ==
  IF k = 0 THEN <<>>
  ELSE BlocksUpTo(k - 1, odd, shape)
         \o BlockLines(k, IF k = odd THEN shape ELSE "one_core")

\* The file that declares `declared` abnormalities and holds `blocks` blocks.
OverlayOf(declared, blocks, odd, shape) ==
  << Keyword.TOTAL_ABNORMALITIES_ \o num2str(declared) >>
    \o BlocksUpTo(blocks, odd, shape)

\* Files whose number of blocks differs from the declared number by at most
\* one, the odd block being the first or the last.
OverlayDescriptors(max) ==
  { d \in [declared : 0..max, blocks : 0..max, odd : 0..max, shape : Shapes] :
      /\ d.blocks \in (d.declared - 1)..(d.declared + 1)
      /\ IF d.blocks = 0 THEN d.odd = 0 /\ d.shape = "one_core"
         ELSE d.odd \in {1, d.blocks} }

\* The empty file, and files whose first line is not the line of the total.
HeadlessFiles ==
  { <<>>, BlocksUpTo(1, 0, "one_core"),
    <<Keyword.TOTAL_ABNORMALITIES_>> \o BlocksUpTo(1, 0, "one_core") }

(***************************************************************************)
(* get_ddsm_groundtruth (lines 129-151) as a state machine.  overlay is    *)
(* the content of the file named overlay_filename.                          *)
(***************************************************************************)
\* Lines 129-138: read the file line by line until fgetl returns -1, then
\* close it.  fopen of a file that cannot be opened returns -1 and the first
\* fgetl raises an error.
ReadOverlay ==
  /\ pcGt = "fopen"
  /\ \E opened \in BOOLEAN :
       IF opened
         THEN /\ all_lines' = overlay
              /\ fhandle' = "closed"
              /\ pcGt' = "total"
              /\ UNCHANGED lasterr
         ELSE /\ lasterr' = "Invalid file identifier."
              /\ pcGt' = "error"
              /\ UNCHANGED <<all_lines, fhandle>>
  /\ UNCHANGED <<overlay, num_abnormalities, abnormalities, groundtruth>>
  /\ UNCHANGED <<session, maskVars, mainVars, fileVars, pnmVars, calVars, normVars>>

\* Lines 141-143: the declared number of abnormalities, from the first line.
\* all_lines{1} of a file without lines and names{1} of a line without a
\* match are index errors.
ReadTotal ==
  /\ pcGt = "total"
  /\ IF all_lines = <<>> \/ NumberTokenFrom(all_lines[1], 1) = <<>>
       THEN /\ lasterr' = "Index exceeds matrix dimensions."
            /\ pcGt' = "error"
            /\ UNCHANGED <<num_abnormalities, abnormalities>>
       ELSE /\ num_abnormalities' =
                 str2num(NumberTokenFrom(all_lines[1], 1))[1]
            /\ abnormalities' = <<>>
            /\ pcGt' = "for"
            /\ UNCHANGED lasterr
  /\ UNCHANGED <<overlay, fhandle, all_lines, groundtruth>>
  /\ UNCHANGED <<session, maskVars, mainVars, fileVars, pnmVars, calVars, normVars>>

\* Lines 147-149: one iteration of the loop; i is one more than the number
\* of cells already stored.
GetAbnormality ==
  /\ pcGt = "for"
  /\ Len(abnormalities) < num_abnormalities
  /\ \E r \in {get_abnormality(Len(abnormalities) + 1, all_lines)} :
       IF r.ok
         THEN /\ abnormalities' = Append(abnormalities, r.abnormality)
              /\ UNCHANGED <<pcGt, lasterr>>
         ELSE /\ lasterr' = "Undefined function or variable."
              /\ pcGt' = "error"
              /\ UNCHANGED abnormalities
  /\ UNCHANGED <<overlay, fhandle, all_lines, num_abnormalities, groundtruth>>
  /\ UNCHANGED <<session, maskVars, mainVars, fileVars, pnmVars, calVars, normVars>>

\* Line 151.
ReturnGroundtruth ==
  /\ pcGt = "for"
  /\ Len(abnormalities) >= num_abnormalities
  /\ groundtruth' = abnormalities
  /\ pcGt' = "returned"
  /\ UNCHANGED <<overlay, fhandle, all_lines, num_abnormalities,
                 abnormalities, lasterr>>
  /\ UNCHANGED <<session, maskVars, mainVars, fileVars, pnmVars, calVars, normVars>>

(***************************************************************************)
(* make_annotation_image (lines 278-328), one action per statement group.  *)
(* A matrix of zeros and ones is its size and the set of the positions     *)
(* <<row, column>> that hold 1; positions count from 1.                    *)
(***************************************************************************)
\* Line 294.
zeros(dims) == [allocated |-> TRUE, size |-> dims, ones |-> {}]

\* Lines 298, 320: anno_image(pos(1), pos(2)) = 1 with positive indices.  An
\* index beyond the size of the matrix enlarges the matrix, the new elements
\* being 0.
AssignOne(image, p) ==
  [image EXCEPT !.size = <<IF p[1] > @[1] THEN p[1] ELSE @[1],
                           IF p[2] > @[2] THEN p[2] ELSE @[2]>>,
                !.ones = @ \cup {p}]

\* Variant: a value that is none of the cases is taken modulo 8.
StepModulo8(code) ==
  <<<<-1, -1, 0, 1, 1, 1, 0, -1>>[(code % 8) + 1],
    <<0, 1, 1, 1, 0, -1, -1, -1>>[(code % 8) + 1]>>

\* Lines 300-317: the switch; a value that is none of the cases leaves pos.
Step(code) ==
  CASE code = 0 -> <<-1, 0>>
    [] code = 1 -> <<-1, 1>>
    [] code = 2 -> <<0, 1>>
    [] code = 3 -> <<1, 1>>
    [] code = 4 -> <<1, 0>>
    [] code = 5 -> <<1, -1>>
    [] code = 6 -> <<0, -1>>
    [] code = 7 -> <<-1, -1>>
    [] OTHER -> <<0, 0>>

\* Variant: the neighbours of a pixel, those across a corner included.
Neighbours8(p) ==
  {<<p[1] + dr, p[2] + dc>> : dr \in {-1, 0, 1}, dc \in {-1, 0, 1}} \ {p}

\* The four neighbours of a pixel: imfill takes the background of a 2-D
\* image to be 4-connected.
Neighbours4(p) ==
  {<<p[1] - 1, p[2]>>, <<p[1] + 1, p[2]>>, <<p[1], p[2] - 1>>, <<p[1], p[2] + 1>>}

\* The zeros that a path of zeros, going from a pixel to one of its
\* neighbours, connects to the set reached; front holds the zeros reached
\* last.
RECURSIVE Connected(_, _, _)
Connected(reached, front, background) ==
  LET more == ((UNION {Neighbours4(p) : p \in front}) \cap background)
                \ reached
  IN  IF more = {} THEN reached
      ELSE Connected(reached \cup more, more, background)

\* Line 324: imfill(anno_image, 'holes') sets to 1 every zero that is not
\* connected to the edge of the image.
imfill(image) ==
  LET background == ((1..image.size[1]) \X (1..image.size[2])) \ image.ones
      edge == {p \in background :
                 \/ p[1] = 1 \/ p[1] = image.size[1]
                 \/ p[2] = 1 \/ p[2] = image.size[2]}
      outside == Connected(edge, edge, background)
  IN  [image EXCEPT !.ones = @ \cup (background \ outside)]

\* Variant: the image is allocated before the last character is tested.
CheckSentinelAfterZeros ==
  /\ pcMask = "sentinel"
  /\ anno_image' = zeros(image_dims)
  /\ IF chain_code = <<>>
       THEN /\ lasterr' = "Subscript indices must be positive."
            /\ pcMask' = "error"
            /\ UNCHANGED chain_code
       ELSE IF chain_code[Len(chain_code)] # "#"
       THEN /\ lasterr' = "Chain codes must end in a \"#\" character."
            /\ pcMask' = "error"
            /\ UNCHANGED chain_code
       ELSE /\ chain_code' = SubSeq(chain_code, 1, Len(chain_code) - 1)
            /\ pcMask' = "zeros"
            /\ UNCHANGED lasterr
  /\ UNCHANGED <<image_dims, pos, chainIndex>>
  /\ UNCHANGED <<session, gtVars, mainVars, fileVars, pnmVars, calVars, normVars>>

\* Lines 285-288: the test of the last character, and its removal.
\* chain_code(end) of an empty text is chain_code(0), an index that is not
\* positive.
CheckSentinel ==
  /\ pcMask = "sentinel"
  /\ IF chain_code = <<>>
       THEN /\ lasterr' = "Subscript indices must be positive."
            /\ pcMask' = "error"
            /\ UNCHANGED chain_code
       ELSE IF chain_code[Len(chain_code)] # "#"
       THEN /\ lasterr' = "Chain codes must end in a \"#\" character."
            /\ pcMask' = "error"
            /\ UNCHANGED chain_code
       ELSE /\ chain_code' = SubSeq(chain_code, 1, Len(chain_code) - 1)
            /\ pcMask' = "zeros"
            /\ UNCHANGED lasterr
  /\ UNCHANGED <<image_dims, anno_image, pos, chainIndex>>
  /\ UNCHANGED <<session, gtVars, mainVars, fileVars, pnmVars, calVars, normVars>>

\* Lines 291-294: the chain code as a vector, and the image of zeros.
Allocate ==
  /\ pcMask = "zeros"
  /\ chain_code' = str2num(chain_code)
  /\ anno_image' = zeros(image_dims)
  /\ pcMask' = "start"
  /\ UNCHANGED <<image_dims, pos, chainIndex, lasterr>>
  /\ UNCHANGED <<session, gtVars, mainVars, fileVars, pnmVars, calVars, normVars>>

\* Variant: the first number taken for the row.
StartPositionRowFirst(code) == <<code[1], code[2]>>

\* Line 297: pos = [chain_code(2) chain_code(1)].
StartPosition(code) == <<code[2], code[1]>>

\* Lines 297-298: the start position is row chain_code(2), column
\* chain_code(1).  A vector of fewer than two numbers, or an index below 1,
\* is an index error.
MarkStart ==
  /\ pcMask = "start"
  /\ IF Len(chain_code) < 2
       THEN /\ lasterr' = "Index exceeds matrix dimensions."
            /\ pcMask' = "error"
            /\ UNCHANGED <<pos, anno_image, chainIndex>>
       ELSE /\ pos' = StartPosition(chain_code)
            /\ IF pos'[1] < 1 \/ pos'[2] < 1
                 THEN /\ lasterr' = "Subscript indices must be positive."
                      /\ pcMask' = "error"
                      /\ UNCHANGED <<anno_image, chainIndex>>
                 ELSE /\ anno_image' = AssignOne(anno_image, pos')
                      /\ chainIndex' = 3
                      /\ pcMask' = "for"
                      /\ UNCHANGED lasterr
  /\ UNCHANGED <<chain_code, image_dims>>
  /\ UNCHANGED <<session, gtVars, mainVars, fileVars, pnmVars, calVars, normVars>>

\* Lines 299-321: one iteration of the loop over chain_code(3:end).
TraceStep ==
  /\ pcMask = "for"
  /\ chainIndex <= Len(chain_code)
  /\ pos' = <<pos[1] + Step(chain_code[chainIndex])[1],
              pos[2] + Step(chain_code[chainIndex])[2]>>
  /\ IF pos'[1] < 1 \/ pos'[2] < 1
       THEN /\ lasterr' = "Subscript indices must be positive."
            /\ pcMask' = "error"
            /\ UNCHANGED <<anno_image, chainIndex>>
       ELSE /\ anno_image' = AssignOne(anno_image, pos')
            /\ chainIndex' = chainIndex + 1
            /\ UNCHANGED <<pcMask, lasterr>>
  /\ UNCHANGED <<chain_code, image_dims>>
  /\ UNCHANGED <<session, gtVars, mainVars, fileVars, pnmVars, calVars, normVars>>

\* Line 324, reached when the loop has used the whole vector.
Fill ==
  /\ pcMask = "for"
  /\ chainIndex > Len(chain_code)
  /\ anno_image' = imfill(anno_image)
  /\ pcMask' = "size"
  /\ UNCHANGED <<chain_code, image_dims, pos, chainIndex, lasterr>>
  /\ UNCHANGED <<session, gtVars, mainVars, fileVars, pnmVars, calVars, normVars>>

\* Variant: the image is returned without the test of its size.
CheckSizeSkipped ==
  /\ pcMask = "size"
  /\ pcMask' = "return"
  /\ UNCHANGED <<chain_code, image_dims, anno_image, pos, chainIndex, lasterr>>
  /\ UNCHANGED <<session, gtVars, mainVars, fileVars, pnmVars, calVars, normVars>>

\* Lines 326-328: the image is returned only if it still has the size asked
\* for.
CheckSize ==
  /\ pcMask = "size"
  /\ IF anno_image.size # image_dims
       THEN /\ lasterr' = "There was a problem parsing the chain code."
            /\ pcMask' = "error"
       ELSE /\ pcMask' = "return"
            /\ UNCHANGED lasterr
  /\ UNCHANGED <<chain_code, image_dims, anno_image, pos, chainIndex>>
  /\ UNCHANGED <<session, gtVars, mainVars, fileVars, pnmVars, calVars, normVars>>

MaskNext ==
  CheckSentinel \/ Allocate \/ MarkStart \/ TraceStep \/ Fill \/ CheckSize

(***************************************************************************)
(* Calling the functions.                                                  *)
(***************************************************************************)
\* The sizes [rows cols] a caller passes to a mask function.
ImageDims == {<<3, 3>>, <<4, 5>>}

\* The boundary (k = 0) or the k-th core of abnormality a of a result.
HandleAt(result, a, k) ==
  IF k = 0 THEN result[a].annotations.boundary
  ELSE result[a].annotations.cores[k]

\* Variant: the function shares its text with the result, so that the
\* removal of the last character (line 288) reaches the stored text.
InvokeHandleByReference ==
  /\ pcGt = "returned"
  /\ pcMask \in {"idle", "return", "error"}
  /\ \E a \in 1..Len(groundtruth), dims \in ImageDims :
       \E k \in 0..Len(groundtruth[a].annotations.cores) :
        \E h \in {HandleAt(groundtruth, a, k)} :
          /\ h.is_function
          /\ chain_code' = h.chain_code
          /\ image_dims' = dims
          /\ session' = [session EXCEPT !.handle = <<a, k>>]
          /\ groundtruth' =
               IF k = 0
                 THEN [groundtruth EXCEPT ![a].annotations.boundary.chain_code =
                         SubSeq(@, 1, Len(@) - 1)]
                 ELSE [groundtruth EXCEPT ![a].annotations.cores[k].chain_code =
                         SubSeq(@, 1, Len(@) - 1)]
  /\ anno_image' = Unallocated
  /\ pos' = <<0, 0>>
  /\ chainIndex' = 0
  /\ pcMask' = "sentinel"
  /\ UNCHANGED <<overlay, fhandle, all_lines, num_abnormalities, abnormalities,
                 pcGt, lasterr>>
  /\ UNCHANGED <<mainVars, fileVars, pnmVars, calVars, normVars>>

\* Lines 269-273: calling one of the anonymous functions of a returned
\* abnormality calls make_annotation_image with the size given and the text
\* the function has captured.
InvokeHandle ==
  /\ pcGt = "returned"
  /\ pcMask \in {"idle", "return", "error"}
  /\ \E a \in 1..Len(groundtruth), dims \in ImageDims :
       \E k \in 0..Len(groundtruth[a].annotations.cores) :
        \E h \in {HandleAt(groundtruth, a, k)} :
          /\ h.is_function
          /\ chain_code' = h.chain_code
          /\ image_dims' = dims
          /\ session' = [session EXCEPT !.handle = <<a, k>>]
  /\ anno_image' = Unallocated
  /\ pos' = <<0, 0>>
  /\ chainIndex' = 0
  /\ pcMask' = "sentinel"
  /\ UNCHANGED <<lasterr, gtVars, mainVars, fileVars, pnmVars, calVars, normVars>>

\* What a finished call gave its caller: the image, or the error raised.
Outcome ==
  [message |-> IF pcMask = "error" THEN lasterr ELSE "",
   image |-> IF pcMask = "return" THEN anno_image ELSE Unallocated]

\* The number of results a caller keeps.
MaxKept == 2

\* Lines 95 and 106: the caller assigns the value of the call to a variable
\* of its own and has it from then on.
KeepResult ==
  /\ pcGt = "returned"
  /\ pcMask \in {"return", "error"}
  /\ Len(session.kept) < MaxKept
  /\ session' = [session EXCEPT !.kept =
                   Append(@, [handle |-> session.handle,
                              image_dims |-> image_dims,
                              result |-> Outcome])]
  /\ UNCHANGED <<lasterr, gtVars, maskVars>>
  /\ UNCHANGED <<mainVars, fileVars, pnmVars, calVars, normVars>>

\* get_ddsm_groundtruth on an overlay file, then calls of the functions it
\* returned.
GtInit ==
  /\ \/ \E d \in OverlayDescriptors(MaxAbnormalities) :
           overlay = OverlayOf(d.declared, d.blocks, d.odd, d.shape)
     \/ overlay \in HeadlessFiles
  /\ fhandle = "none" /\ all_lines = <<>>
  /\ num_abnormalities = 0 /\ abnormalities = <<>> /\ groundtruth = <<>>
  /\ pcGt = "fopen" /\ lasterr = "" /\ session = NoSession
  /\ MaskIdle /\ MainIdle /\ FileIdle /\ PnmIdle /\ CalIdle /\ NormIdle

GtNext ==
  \/ ReadOverlay
  \/ ReadTotal
  \/ GetAbnormality
  \/ ReturnGroundtruth
  \/ InvokeHandle
  \/ MaskNext

SpecGt == GtInit /\ [][GtNext]_vars

\* Files in which the blocks of the first abnormalities are missing: the
\* first line declares `declared` abnormalities and the blocks are those of
\* the abnormalities first..last, each with a boundary and one core.
GapFile(declared, first, last) ==
  << Keyword.TOTAL_ABNORMALITIES_ \o num2str(declared) >>
    \o SubSeq(BlocksUpTo(last, 0, "one_core"),
              Len(BlocksUpTo(first - 1, 0, "one_core")) + 1,
              Len(BlocksUpTo(last, 0, "one_core")))

GapFiles ==
  { GapFile(declared, first, last) :
      declared \in {1, 2, MaxAbnormalities - 1, MaxAbnormalities},
      first \in {2, 3, MaxAbnormalities - 1},
      last \in {MaxAbnormalities - 1, MaxAbnormalities} }

GapInit ==
  /\ overlay \in GapFiles
  /\ fhandle = "none" /\ all_lines = <<>>
  /\ num_abnormalities = 0 /\ abnormalities = <<>> /\ groundtruth = <<>>
  /\ pcGt = "fopen" /\ lasterr = "" /\ session = NoSession
  /\ MaskIdle /\ MainIdle /\ FileIdle /\ PnmIdle /\ CalIdle /\ NormIdle

SpecGaps == GapInit /\ [][GtNext]_vars

\* A session as in the example of the help text: one overlay file is read,
\* the functions of the result are called in any order, with any of the
\* sizes, and some of the images are kept.
SessionFiles ==
  { OverlayOf(1, 1, 1, "two_cores"), OverlayOf(2, 2, 1, "one_core"),
    OverlayOf(2, 2, 2, "boundary_only"),
    OverlayOf(1, 1, 1, "core_without_sentinel"),
    OverlayOf(2, 2, 1, "boundary_without_sentinel") }

SessionInit ==
  /\ overlay \in SessionFiles
  /\ fhandle = "none" /\ all_lines = <<>>
  /\ num_abnormalities = 0 /\ abnormalities = <<>> /\ groundtruth = <<>>
  /\ pcGt = "fopen" /\ lasterr = "" /\ session = NoSession
  /\ MaskIdle /\ MainIdle /\ FileIdle /\ PnmIdle /\ CalIdle /\ NormIdle

SessionNext == GtNext \/ KeepResult

SpecSession == SessionInit /\ [][SessionNext]_vars

(***************************************************************************)
(* make_annotation_image on its own: chain codes written as the overlay    *)
(* files write them, the numbers separated by spaces and followed by " #". *)
(***************************************************************************)
MaxStart == 5
MaxSteps == 2
MaxCorner == 2
MaxSide == 4

RECURSIVE JoinNumbers(_)
JoinNumbers(code) ==
  IF code = <<>> THEN <<>>
  ELSE IF Len(code) = 1 THEN DecStr(code[1])
  ELSE DecStr(code[1]) \o <<" ">> \o JoinNumbers(Tail(code))

ChainText(code) == JoinNumbers(code) \o <<" ", "#">>

\* Sequences of at most n elements of a set.
SeqsUpTo(set, n) == UNION {[1..m -> set] : m \in 0..n}

\* A start (column, row) and a few steps; 8 is not a direction.
ShortCodes(maxStart, maxSteps) ==
  { <<col, row>> \o steps :
      col \in 0..maxStart, row \in 0..maxStart,
      steps \in SeqsUpTo(0..8, maxSteps) }

Repeat(code, n) == [k \in 1..n |-> code]

\* Closed boundaries of rectangles: the top left pixel, height and width,
\* traced clockwise, either through the four corner pixels or past each of
\* them with one diagonal step.
Rectangles(maxCorner, maxSide) ==
  { d \in [top : 1..maxCorner, left : 1..maxCorner, height : 1..maxSide,
           width : 1..maxSide, diagonal : BOOLEAN] :
      d.diagonal => d.height >= 3 /\ d.width >= 3 }

RectangleCode(d) ==
  IF d.diagonal
    THEN <<d.left + 1, d.top>>
           \o Repeat(2, d.width - 3) \o <<3>> \o Repeat(4, d.height - 3) \o <<5>>
           \o Repeat(6, d.width - 3) \o <<7>> \o Repeat(0, d.height - 3) \o <<1>>
    ELSE <<d.left, d.top>>
           \o Repeat(2, d.width - 1) \o Repeat(4, d.height - 1)
           \o Repeat(6, d.width - 1) \o Repeat(0, d.height - 1)

\* Texts that are not a chain code: nothing, no '#', no or one number, a
\* token that is not a number.
MalformedTexts ==
  { <<>>, <<"#">>, <<"2", " ", "#">>, <<"2", " ", "1", " ", "4">>,
    <<"2", " ", "1">>, <<"x", " ", "1", " ", "#">> }

\* Chain codes written with commas and with signs: 2,1,4 and 2, 1 ,3 5 and
\* +2 1 -1 4, each followed by ' #'.
PunctuatedTexts ==
  { <<"2", ",", "1", ",", "4", " ", "#">>,
    <<"2", ",", " ", "1", " ", ",", "3", " ", "5", " ", "#">>,
    <<"+", "2", " ", "1", " ", "-", "1", " ", "4", " ", "#">> }

MaskInit ==
  /\ \/ \E code \in ShortCodes(MaxStart, MaxSteps) : chain_code = ChainText(code)
     \/ \E d \in Rectangles(MaxCorner, MaxSide) :
          chain_code = ChainText(RectangleCode(d))
     \/ chain_code \in MalformedTexts
     \/ chain_code \in PunctuatedTexts
  /\ image_dims \in ImageDims
  /\ anno_image = Unallocated
  /\ pos = <<0, 0>>
  /\ chainIndex = 0
  /\ pcMask = "sentinel"
  /\ GtIdle /\ MainIdle /\ FileIdle /\ PnmIdle /\ CalIdle /\ NormIdle

SpecMask == MaskInit /\ [][MaskNext]_vars

\* A session on a file of one abnormality whose core is its boundary with
\* one more number, not a direction, somewhere after the start.  The
\* boundaries: a closed square, a diagonal, a step that leaves the image at
\* the top, a step beyond the third column.
TokenCodes == { <<2, 1, 2, 4, 6, 0>>, <<1, 1, 3, 3>>, <<1, 1, 0>>, <<3, 3, 2>> }
OtherTokens == {8, 12}

InsertAt(code, j, token) ==
  SubSeq(code, 1, j - 1) \o <<token>> \o SubSeq(code, j, Len(code))

TokenFile(code, j, token) ==
  << Keyword.TOTAL_ABNORMALITIES_ \o num2str(1) >>
    \o DescriptionLines(1, "one_core")
    \o << Keyword.BOUNDARY, ChainText(code),
          <<"\t">> \o Keyword.CORE, ChainText(InsertAt(code, j, token)) >>

TokenInit ==
  /\ \E code \in TokenCodes, token \in OtherTokens :
       \E j \in 3..(Len(code) + 1) : overlay = TokenFile(code, j, token)
  /\ fhandle = "none" /\ all_lines = <<>>
  /\ num_abnormalities = 0 /\ abnormalities = <<>> /\ groundtruth = <<>>
  /\ pcGt = "fopen" /\ lasterr = "" /\ session = NoSession
  /\ MaskIdle /\ MainIdle /\ FileIdle /\ PnmIdle /\ CalIdle /\ NormIdle

SpecTokens == TokenInit /\ [][SessionNext]_vars

(***************************************************************************)
(* Properties.                                                             *)
(***************************************************************************)
Range(seq) == {seq[k] : k \in 1..Len(seq)}

\* The text written after the five header lines, without the line breaks.
PixelChunks(text) == SelectSeq(SubSeq(text, 6, Len(text)), LAMBDA c : c # "\n")

\* The k-th big-endian sample of a byte stream.
SampleAt(file, k) == 256 * file[2 * k - 1] + file[2 * k]

ExpectedValues(f, file, n) ==
  [k \in 1..n |-> FormatUnsigned(Calibrate(f, SampleAt(file, k)).val) \o " "]

NoReadFault == ReadErrorMessage \notin Range(stdout)

\* C1: for every digitizer and positive rows, cols, makePnmFile on a stream
\* of exactly 2*rows*cols bytes (and no read fault) returns 0 having written
\* exactly rows*cols values, the k-th being the calibration of the
\* big-endian sample 256*b[2k-1] + b[2k] (1-based bytes); the iteration at
\* the end of the stream writes no extra value.
C1_ExactLengthDecodes ==
  (pc = "returned" /\ Len(inFile) = 2 * numRows * numCols /\ NoReadFault)
    => /\ status = 0
       /\ numPixels = numRows * numCols
       /\ PixelChunks(outText) =
            ExpectedValues(calibrationFunc, inFile, numRows * numCols)

C1_Witness ==
  /\ pc = "returned"
  /\ status = 0
  /\ calibrationFunc = dba
  /\ numRows = MaxRows /\ numCols = MaxCols
  /\ Len(inFile) = 2 * MaxRows * MaxCols
  /\ inFile[1] = 250
  /\ numPixels = MaxRows * MaxCols

\* C2 (as claimed): a stream of any other length makes makePnmFile return
\* the size-mismatch error.
C2_OtherLengthFails ==
  (pc = "returned" /\ Len(inFile) # 2 * numRows * numCols /\ NoReadFault)
    => status = image_size_error

\* C3: every calibration function, on every raw sample 0..65535, succeeds
\* with an output in 0..65535, so checkCalibrationFunctions never returns
\* false.
C3_CalibrationInRange ==
  /\ pcCheck # "false"
  /\ pcCheck \in {"test", "true"}
       => (okVal /\ outVal \in 0..maxUnsignedIntWithNumBits)

\* dba on raw 5: optical density 3.819..., sample 133.
C3_Witness ==
  /\ pcCheck = "test"
  /\ i = 0
  /\ inVal = 5
  /\ okVal
  /\ outVal = 133

\* floor(w * w / 65535) for w in 0..65535, in base 65536:
\* w * w = hi * 65536 + lo = hi * 65535 + (hi + lo).
FloorSquareOverMax(w) ==
  LET a == w \div 256
      b == w % 256
      mid == 2 * a * b * 256 + b * b
      hi == a * a + (mid \div 65536)
      lo == mid % 65536
  IN  hi + ((hi + lo) \div 65535)

\* C4: with v the integer of step 1, od2NormGreyLevel returns false exactly
\* when v > 65535; for v in 0..65535 it returns true with
\* floor((65535 - v)^2 / 65535), which lies in 0..65535.
C4_NormGreyLevel ==
  LET v == DoubleToUnsigned(od)
  IN  /\ pcNorm = "false" => v > maxUnsignedIntWithNumBits
      /\ pcNorm = "true"
           => /\ v \in 0..maxUnsignedIntWithNumBits
              /\ retVal = FloorSquareOverMax(maxUnsignedIntWithNumBits - v)
              /\ retVal \in 0..maxUnsignedIntWithNumBits

C4_Witness ==
  /\ pcNorm = "true"
  /\ od = GridOD(20000)
  /\ retVal = 31638

\* floor(65535 * od) for od >= 0: four times the scaled value of step 1,
\* truncated.
Quarters(x) ==
  LET p1 == MulDivMod(x.l, maxUnsignedIntWithNumBits, FxBase)
      p2 == MulDivMod(x.h, maxUnsignedIntWithNumBits, FxBase)
  IN  p2[1] + ((p2[2] + p1[1]) \div FxBase)

\* C5 (as claimed): step 1 rounds the scaled value to the nearest integer.
C5_RoundsToNearest ==
  pcNorm = "range" => retVal = (Quarters(od) + 2) \div 4

\* C5 (amended): step 1 truncates the scaled value (65535 / 4) * od towards
\* zero.
C5_TruncatesTowardZero ==
  pcNorm = "range" => retVal = Quarters(od) \div 4

\* howtek-mgh raw 1: the scaled value is 62062.53..., step 1 gives 62062.
C5_Witness ==
  /\ pcNorm = "range"
  /\ od = howtekMghOD(1)
  /\ retVal = 62062
  /\ (Quarters(od) + 2) \div 4 = 62063

\* C6 (as claimed): for digitizer A a raw sample of 4 is clamped to optical
\* density 0 and gives the same normalized sample as raw 0.
C6_RawFourAsRawZero ==
  (pcCheck = "test" /\ i = 0 /\ inVal = 4)
    => /\ dbaOD(4) = Fx(1, 0, 0)
       /\ outVal = dbaCalibration(0).val

\* C6 (amended): for digitizer A only raw 0 has optical density 0 (sample
\* 65535); the raw samples 1..4 all get the density of raw 4,
\* (log10(4) - 4.80662) / (-1.07553) = 3.909..., and the sample 33.
C6_RawFourKeepsItsDensity ==
  (pcCheck = "test" /\ i = 0 /\ inVal <= 4)
    => IF inVal = 0
         THEN outVal = maxUnsignedIntWithNumBits
         ELSE /\ outVal = 33
              /\ outVal = od2NormGreyLevel(dbaFormula(4)).val
              /\ FxMagLess(FxLit(3, 9000000, 0), dbaOD(inVal))

C6_Witness ==
  /\ pcCheck = "test"
  /\ i = 0
  /\ inVal = 4
  /\ outVal = 33

\* The bound of the valid interval nearest to a raw sample outside it, -1
\* for a sample inside the interval.
NearestBound(f, raw) ==
  CASE f = dba /\ raw > 64064 -> 64064
    [] f = dba /\ raw \in 1..3 -> 4
    [] f = howtek_mgh /\ raw > 4006 -> 4006
    [] f = howtek_ismd /\ raw > 4003 -> 4003
    [] f = lumisys /\ raw < 61 -> 61
    [] f = lumisys /\ raw > 4097 -> 4097
    [] OTHER -> -1

\* The optical density formula of a digitizer, without its clamps.
FormulaOD(f, raw) ==
  CASE f = dba -> dbaFormula(raw)
    [] f = howtek_mgh -> howtekMghFormula(raw)
    [] f = howtek_ismd -> howtekIsmdFormula(raw)
    [] f = lumisys -> lumisysFormula(raw)

\* C7: a raw sample outside the digitizer's valid interval causes no error:
\* the call succeeds and gives the value the formula has at the nearest
\* bound of the interval.
C7_ClampsSaturate ==
  pcCheck \in {"test", "false"}
    => \A b \in {NearestBound(calibrationFuncs[i + 1], inVal)} :
          b >= 0 => /\ pcCheck = "test"
                    /\ okVal
                    /\ outVal = od2NormGreyLevel(FormulaOD(calibrationFuncs[i + 1], b)).val

\* dba on raw 2, below the interval: the sample of raw 4.
C7_Witness ==
  /\ pcCheck = "test"
  /\ i = 0
  /\ inVal = 2
  /\ okVal
  /\ outVal = od2NormGreyLevel(dbaFormula(4)).val

\* The kind of failure a run ended with, read from its diagnostics.
ErrorKinds == {"syntax", "rows", "cols", "file", "read", "calibration", "size"}

FailureKind ==
  CASE ReadErrorMessage \in Range(stdout) -> "read"
    [] PixelErrorMessage(thisPixel) \in Range(stdout) -> "calibration"
    [] SizeErrorMessage(numPixels, numRows, numCols) \in Range(stdout) -> "size"
    [] rows_not_positive_error_msg \in Range(stderr) -> "rows"
    [] cols_not_positive_error_msg \in Range(stderr) -> "cols"
    [] file_error_msg \in Range(stderr) -> "file"
    [] syntax_error_msg \in Range(stderr) -> "syntax"
    [] OTHER -> "other"

\* The process status the program ends with for each kind of failure.
StatusOfKind(k) ==
  CASE k = "syntax" -> ProcessStatus(syntax_error)
    [] k = "rows" -> ProcessStatus(rows_not_positive_error)
    [] k = "cols" -> ProcessStatus(cols_not_positive_error)
    [] k = "file" -> ProcessStatus(file_error)
    [] k = "read" -> ProcessStatus(FinishCode(-1))
    [] k = "calibration" -> ProcessStatus(FinishCode(-1))
    [] k = "size" -> ProcessStatus(FinishCode(image_size_error))

\* C8 (as claimed): each kind of failure ends the program with a process
\* status that no other kind produces.
C8_DistinctStatusPerKind ==
  (pc = "exit" /\ exitCode # success)
    => /\ ProcessStatus(exitCode) = StatusOfKind(FailureKind)
       /\ \A k \in ErrorKinds \ {FailureKind} :
             StatusOfKind(k) # ProcessStatus(exitCode)

\* C9: if the declared rows or cols is not positive (text without a number
\* is parsed as 0), the program never opens, reads or creates a file; once
\* a digitizer is selected it exits with the rows error if rows is not
\* positive, else with the cols error.
C9_RangeErrorBeforeOpen ==
  (pc \notin {"main", "args"} /\ (numRows < 1 \/ numCols < 1))
    => /\ input = "NULL" /\ output = "NULL"
       /\ ~outCreated /\ inPos = 0 /\ outText = <<>>
       /\ pc \in {"range", "exit"}
       /\ (pc = "exit" /\ calibrationFunc # "NULL")
            => /\ exitCode = IF numRows < 1 THEN rows_not_positive_error
                             ELSE cols_not_positive_error
               /\ stderr = <<IF numRows < 1 THEN rows_not_positive_error_msg
                             ELSE cols_not_positive_error_msg>>

C9_Witness ==
  /\ pc = "exit"
  /\ argRows = <<"x">>
  /\ numRows = 0
  /\ numCols = 0
  /\ calibrationFunc = lumisys
  /\ exitCode = rows_not_positive_error
  /\ input = "NULL" /\ output = "NULL"

\* The concatenation of the strings of a sequence.
RECURSIVE Concat(_)
Concat(text) == IF text = <<>> THEN "" ELSE Head(text) \o Concat(Tail(text))

\* The body of the PNM file for the samples vals: each value followed by a
\* space, a line break after every tenth value.
ExpectedBody(vals) ==
  Concat([k \in 1..Len(vals) |-> IF k % 10 = 0 THEN vals[k] \o "\n" ELSE vals[k]])

\* The output the claimed layout gives: the comment states the bit depth in
\* decimal.
ExpectedPnm(f, rows, cols, file) ==
  "P2\n"
    \o "# Generated by ddsmraw2pnm. Original data was digitized at "
    \o (IF f = dba THEN "16" ELSE "12") \o " bits/pixel.\n"
    \o ToString(cols) \o "\n" \o ToString(rows) \o "\n" \o "65535\n"
    \o ExpectedBody(ExpectedValues(f, file, rows * cols))

\* C10 (as claimed): a successful conversion writes exactly "P2", the
\* comment line that states 16 bits/pixel for digitizer A and 12 for the
\* others, cols, rows, 65535, then the samples, each followed by a space,
\* with a line break after every tenth.
C10_OutputLayout ==
  (pc = "returned" /\ status = 0 /\ Len(inFile) = 2 * numRows * numCols)
    => Concat(outText) = ExpectedPnm(calibrationFunc, numRows, numCols, inFile)

\* C11: on every path after the two fopen calls the program exits with no
\* stream left open, and each stream that was opened has been closed exactly
\* once: a stream is never closed twice and a NULL stream is never closed.
C11_HandlesClosedOnce ==
  /\ pc = "exit" => input # "open" /\ output # "open"
  /\ inCloses = (IF input = "closed" THEN 1 ELSE 0)
  /\ outCloses = (IF output = "closed" THEN 1 ELSE 0)

\* Both streams opened, the conversion ran, and both were closed on the way
\* to exit(pnm_error).
C11_Witness ==
  /\ pc = "exit"
  /\ exitCode = pnm_error
  /\ input = "closed" /\ output = "closed"
  /\ inCloses = 1 /\ outCloses = 1

(***************************************************************************)
(* The overlay file read directly: a keyword is looked for at the start of *)
(* a line, a marker is a whole line.                                       *)
(***************************************************************************)
StartsWith(line, pat) ==
  Len(line) >= Len(pat) /\ SubSeq(line, 1, Len(pat)) = pat

ValueOf(line, pat) == SubSeq(line, Len(pat) + 1, Len(line))

Marker(n) == Keyword.ABNORMALITY_ \o DecStr(n)

\* The line of the marker of abnormality n, 0 if the file has none.
MarkerLine(file, n) ==
  IF \E k \in 1..Len(file) : file[k] = Marker(n)
    THEN CHOOSE k \in 1..Len(file) :
           file[k] = Marker(n) /\ \A j \in 1..(k - 1) : file[j] # Marker(n)
    ELSE 0

\* The numbers a header line can declare, and whether the file declares n.
Totals == 0..(MaxAbnormalities + 1)

Declares(file, n) ==
  file # <<>> /\ file[1] = Keyword.TOTAL_ABNORMALITIES_ \o DecStr(n)

\* The lines of abnormality n: from its marker up to the line before the
\* next marker, or to the end of the file; no lines if it has no marker.
BlockOf(file, n) ==
  IF MarkerLine(file, n) = 0 THEN <<>>
  ELSE SubSeq(file, MarkerLine(file, n),
              IF MarkerLine(file, n + 1) # 0 THEN MarkerLine(file, n + 1) - 1
              ELSE Len(file))

\* The values of the lines of a block that start with a keyword, in order.
ValuesOf(block, pat) ==
  LET at == {k \in 1..Len(block) : StartsWith(block[k], pat)}
      nth[j \in 0..Len(block)] ==
        IF j = 0 THEN <<>>
        ELSE IF j \in at THEN Append(nth[j - 1], ValueOf(block[j], pat))
        ELSE nth[j - 1]
  IN  nth[Len(block)]

JustReturned == pcGt = "returned" /\ pcMask = "idle"

\* C12 (as claimed): when get_ddsm_groundtruth returns, the result has
\* exactly as many records as the first line declares and record i is the
\* one of abnormality number i (it carries the lesion types of the block
\* under marker i); so a file in which some abnormality 1..N has no block
\* never returns.
C12_DeclaredCountReturned ==
  JustReturned =>
    \E n \in Totals :
      /\ Declares(overlay, n)
      /\ Len(groundtruth) = n
      /\ \A k \in 1..n :
           /\ MarkerLine(overlay, k) # 0
           /\ groundtruth[k].lesion_type =
                ValuesOf(BlockOf(overlay, k), Keyword.LESION_TYPE_)

\* The abnormality numbers whose block get_abnormality has just been given:
\* the one of the last record stored, and the one of a call that failed.
BlocksHandedOver ==
  {k \in {Len(abnormalities), Len(abnormalities) + 1} :
     /\ k \in 1..num_abnormalities
     /\ k = Len(abnormalities) + 1 => pcGt = "error"
     /\ MarkerLine(overlay, k) # 0}

\* C13: the lines get_abnormality hands to parse_abnormality for abnormality
\* i are exactly the lines from marker i up to, and without, marker i + 1,
\* or up to the end of the file for the last block; also in files of ten or
\* more abnormalities, where the text of marker i starts markers 10i..10i+9.
C13_BlockBetweenMarkers ==
  pcGt \in {"for", "error"} =>
    \A k \in BlocksHandedOver :
      /\ AbnormalityLines(k, all_lines) = BlockOf(overlay, k)
      /\ k <= Len(abnormalities) =>
           abnormalities[k] = parse_abnormality(BlockOf(overlay, k)).abnormality

\* Block 1 has been taken from a file that holds markers 10 and 11.
C13_Witness ==
  /\ pcGt = "for"
  /\ Len(abnormalities) = 1
  /\ num_abnormalities = 11
  /\ MarkerLine(overlay, 10) # 0
  /\ MarkerLine(overlay, 11) # 0
  /\ regexp(Marker(10), AbnormalityPattern(1)) # 0
  /\ Len(BlockOf(overlay, 1)) < MarkerLine(overlay, 2)

\* The integer a value of one digit stands for, as a row of one number.
NumberOf(value) == <<CHOOSE n \in 0..9 : DecStr(n) = value>>

Last(seq) == seq[Len(seq)]

\* C14: every record holds the values of all LESION_TYPE lines of its own
\* block in file order, and the assessment, subtlety and pathology of the
\* ASSESSMENT, SUBTLETY and PATHOLOGY lines of that same block.
C14_DescriptionOfOwnBlock ==
  JustReturned =>
    \A k \in 1..Len(groundtruth) :
      LET block == BlockOf(overlay, k)
          r == groundtruth[k]
      IN  /\ r.lesion_type = ValuesOf(block, Keyword.LESION_TYPE_)
          /\ ValuesOf(block, Keyword.ASSESSMENT_) # <<>> =>
               /\ "assessment" \in r.fields
               /\ r.assessment = NumberOf(Last(ValuesOf(block, Keyword.ASSESSMENT_)))
          /\ ValuesOf(block, Keyword.SUBTLETY_) # <<>> =>
               /\ "subtlety" \in r.fields
               /\ r.subtlety = NumberOf(Last(ValuesOf(block, Keyword.SUBTLETY_)))
          /\ ValuesOf(block, Keyword.PATHOLOGY_) # <<>> =>
               /\ "pathology" \in r.fields
               /\ r.pathology = Last(ValuesOf(block, Keyword.PATHOLOGY_))

\* A file of two blocks whose second block has two lesion types and whose
\* blocks differ in every value.
C14_Witness ==
  /\ JustReturned
  /\ Len(groundtruth) = 2
  /\ Len(groundtruth[2].lesion_type) = 2
  /\ groundtruth[1].lesion_type # <<groundtruth[2].lesion_type[1]>>
  /\ groundtruth[1].assessment = <<2>> /\ groundtruth[2].assessment = <<3>>
  /\ groundtruth[1].subtlety = <<4>> /\ groundtruth[2].subtlety = <<5>>
  /\ groundtruth[1].pathology # groundtruth[2].pathology

\* The outline lines of a block: those after its TOTAL_OUTLINES line.
OutlinesOf(block) ==
  LET at == {k \in 1..Len(block) : StartsWith(block[k], Keyword.TOTAL_OUTLINES_)}
  IN  IF at = {} THEN <<>>
      ELSE SubSeq(block, (CHOOSE k \in at : \A j \in at : j <= k) + 1, Len(block))

IsBoundaryKeyword(line) == line = Keyword.BOUNDARY

IsCoreKeyword(line) == line = <<"\t">> \o Keyword.CORE

\* The lines of an outline section that are not keyword lines and come after
\* a keyword line of the given kind, with no other keyword line in between.
ChainLinesOf(outlines, IsKeyword(_)) ==
  LET kept[j \in 0..Len(outlines)] ==
        IF j = 0 THEN [open |-> FALSE, lines |-> <<>>]
        ELSE IF IsKeyword(outlines[j])
               THEN [kept[j - 1] EXCEPT !.open = TRUE]
        ELSE IF IsBoundaryKeyword(outlines[j]) \/ IsCoreKeyword(outlines[j])
               THEN [kept[j - 1] EXCEPT !.open = FALSE]
        ELSE IF kept[j - 1].open
               THEN [kept[j - 1] EXCEPT !.lines = Append(@, outlines[j])]
        ELSE kept[j - 1]
  IN  kept[Len(outlines)].lines

\* C15 (as claimed): every returned abnormality has exactly one boundary
\* function, holding the chain-code line after the BOUNDARY line, and its
\* cores hold, in file order, exactly the chain-code lines after CORE lines;
\* no keyword line is held as a chain code.
C15_OneBoundaryAndCores ==
  JustReturned =>
    \A k \in 1..Len(groundtruth) :
      LET outlines == OutlinesOf(BlockOf(overlay, k))
          a == groundtruth[k].annotations
      IN  /\ a.boundary.is_function
          /\ ChainLinesOf(outlines, IsBoundaryKeyword) # <<>>
          /\ a.boundary.chain_code = Last(ChainLinesOf(outlines, IsBoundaryKeyword))
          /\ [j \in 1..Len(a.cores) |-> a.cores[j].chain_code]
               = ChainLinesOf(outlines, IsCoreKeyword)
          /\ \A j \in 1..Len(a.cores) :
               /\ a.cores[j].is_function
               /\ ~IsCoreKeyword(a.cores[j].chain_code)
               /\ ~IsBoundaryKeyword(a.cores[j].chain_code)
          /\ ~IsBoundaryKeyword(a.boundary.chain_code)
          /\ ~IsCoreKeyword(a.boundary.chain_code)

\* The file declares n abnormalities and has what the parser needs for each
\* of them: a block, a TOTAL_OUTLINES line in it, and an outline section that
\* does not start with a chain code.
WellFormedFor(file, n) ==
  /\ Declares(file, n)
  /\ \A k \in 1..n :
       /\ MarkerLine(file, k) # 0
       /\ \E j \in 1..Len(BlockOf(file, k)) :
            StartsWith(BlockOf(file, k)[j], Keyword.TOTAL_OUTLINES_)
       /\ LET outlines == OutlinesOf(BlockOf(file, k))
          IN  outlines # <<>> =>
                IsBoundaryKeyword(outlines[1]) \/ IsCoreKeyword(outlines[1])

LacksSentinel(line) == line = <<>> \/ Last(line) # "#"

\* The chain-code lines without the final '#' in the blocks 1..n of a file.
LinesLackingSentinel(file, n) ==
  UNION { { line \in Range(ChainLinesOf(OutlinesOf(BlockOf(file, k)), IsBoundaryKeyword))
                       \cup Range(ChainLinesOf(OutlinesOf(BlockOf(file, k)), IsCoreKeyword)) :
              LacksSentinel(line) } : k \in 1..n }

SentinelMessage == "Chain codes must end in a \"#\" character."

\* C16 (as claimed): a file in which a chain-code line of an abnormality does
\* not end with '#' is not parsed: get_ddsm_groundtruth returns no records.
C16_ParseRejectsMissingSentinel ==
  JustReturned =>
    \A n \in Totals :
      Declares(overlay, n) => LinesLackingSentinel(overlay, n) = {}

\* C16 (amended): such a file, if otherwise well formed, is parsed without
\* an error into its N records, the line being held as it is by a mask
\* function; the error for the missing '#' is raised only when a mask
\* function is called, on the text it holds, before the image exists.
C16_SentinelCheckedOnCall ==
  /\ pcGt = "error" \/ JustReturned =>
       \A n \in Totals :
         /\ fhandle = "closed"
         /\ WellFormedFor(overlay, n)
         /\ LinesLackingSentinel(overlay, n) # {}
         =>
          /\ pcGt # "error"
          /\ JustReturned =>
               /\ Len(groundtruth) = n
               /\ \A line \in LinesLackingSentinel(overlay, n) :
                    \E k \in 1..n :
                      \/ groundtruth[k].annotations.boundary
                           = FunctionHandle(line)
                      \/ FunctionHandle(line)
                           \in Range(groundtruth[k].annotations.cores)
  /\ lasterr = SentinelMessage =>
       /\ pcGt = "returned"
       /\ pcMask = "error" =>
            /\ LacksSentinel(chain_code)
            /\ ~anno_image.allocated

\* A parsed file whose boundary lacks the '#': the call of the boundary
\* function has just failed.
C16_Witness ==
  /\ pcGt = "returned"
  /\ Len(groundtruth) = 1
  /\ LacksSentinel(groundtruth[1].annotations.boundary.chain_code)
  /\ groundtruth[1].annotations.boundary.is_function
  /\ pcMask = "error"
  /\ lasterr = SentinelMessage
  /\ chain_code = groundtruth[1].annotations.boundary.chain_code

\* C17: for every size given, the call of a mask function whose chain code
\* does not end with '#' fails in its first step, before the image is
\* allocated and before any pixel is marked.
C17_FailsBeforeAllocation ==
  /\ [][ pcMask = "sentinel" /\ LacksSentinel(chain_code) =>
           /\ pcMask' = "error"
           /\ ~anno_image'.allocated
           /\ anno_image'.ones = {} ]_vars
  /\ [](pcMask = "error" /\ lasterr = SentinelMessage =>
          /\ LacksSentinel(chain_code)
          /\ ~anno_image.allocated
          /\ anno_image.ones = {})

\* The text '2 1 4' has been rejected for the size 4 by 5.
C17_Witness ==
  /\ pcMask = "error"
  /\ lasterr = SentinelMessage
  /\ chain_code = <<"2", " ", "1", " ", "4">>
  /\ image_dims = <<4, 5>>
  /\ ~anno_image.allocated

\* The offsets (row, column) of the direction codes 0..7.
RowOffset == <<-1, -1, 0, 1, 1, 1, 0, -1>>

ColOffset == <<0, 1, 1, 1, 0, -1, -1, -1>>

OnlyDirections(code) == \A j \in 3..Len(code) : code[j] \in 0..7

\* The position after the first n steps of a chain code: the start is in row
\* code[2], column code[1]; a number that is no direction moves nothing.
PositionAfter(code, n) ==
  LET at[j \in 0..n] ==
        IF j = 0 THEN <<code[2], code[1]>>
        ELSE IF code[j + 2] \in 0..7
               THEN <<at[j - 1][1] + RowOffset[code[j + 2] + 1],
                      at[j - 1][2] + ColOffset[code[j + 2] + 1]>>
        ELSE at[j - 1]
  IN  at[n]

Traced(code, n) == {PositionAfter(code, j) : j \in 0..n}

\* C18: while the chain code is traced and when the trace is complete (the
\* state before the fill), the pixels that are 1 are exactly the start pixel,
\* row = second number and column = first number, and the positions reached
\* by adding the offsets of the directions one after the other.
C18_TraceMarksExactlyThePath ==
  pcMask = "for" /\ OnlyDirections(chain_code) =>
    /\ anno_image.ones = Traced(chain_code, chainIndex - 3)
    /\ pos = PositionAfter(chain_code, chainIndex - 3)

\* The chain code 2 1 3 5 traced to its end: start in row 1, column 2.
C18_Witness ==
  /\ pcMask = "for"
  /\ chain_code = <<2, 1, 3, 5>>
  /\ chainIndex > Len(chain_code)
  /\ image_dims = <<4, 5>>
  /\ anno_image.ones = {<<1, 2>>, <<2, 3>>, <<3, 2>>}

SizeMessage == "There was a problem parsing the chain code."

\* C19: a mask is returned only if the start and every position traced lie
\* inside the image of the size asked for, and then it has exactly that
\* size: a trace that leaves the image below its first or beyond its last
\* row or column ends in an error, never in a mask that was clipped, wrapped
\* around or enlarged.
C19_OutsideNeverReturns ==
  pcMask = "return" =>
    /\ anno_image.size = image_dims
    /\ \A j \in 0..(Len(chain_code) - 2) :
         /\ PositionAfter(chain_code, j)[1] \in 1..image_dims[1]
         /\ PositionAfter(chain_code, j)[2] \in 1..image_dims[2]
    /\ anno_image.ones \subseteq (1..image_dims[1]) \X (1..image_dims[2])
    /\ Traced(chain_code, Len(chain_code) - 2) \subseteq anno_image.ones

\* The chain code 5 1 2 on an image of 4 by 5 steps to column 6: the image
\* has grown to 4 by 6 and the test of its size has raised the error.
C19_Witness ==
  /\ pcMask = "error"
  /\ lasterr = SizeMessage
  /\ chain_code = <<5, 1, 2>>
  /\ image_dims = <<4, 5>>
  /\ anno_image.size = <<4, 6>>

\* The pixels of a rectangle: all of them, or all but its four corners when
\* the boundary passes the corners with diagonal steps.
SolidRectangle(d) ==
  LET rows == d.top..(d.top + d.height - 1)
      cols == d.left..(d.left + d.width - 1)
      corners == {d.top, d.top + d.height - 1} \X {d.left, d.left + d.width - 1}
  IN  IF d.diagonal THEN (rows \X cols) \ corners ELSE rows \X cols

InsideImage(d, dims) ==
  d.top + d.height - 1 <= dims[1] /\ d.left + d.width - 1 <= dims[2]

\* C20: for the closed boundary of a rectangle that lies inside the image,
\* with or without diagonal steps at the corners, the mask returned is 1 on
\* the boundary and on the pixels it encloses and 0 elsewhere; the boundary
\* pixels traced are still 1 after the fill, and the call does not fail.
C20_RectangleFilled ==
  pcMask \in {"return", "error"} /\ anno_image.allocated =>
    \A d \in Rectangles(MaxCorner, MaxSide) :
      RectangleCode(d) = chain_code /\ InsideImage(d, image_dims) =>
        /\ pcMask = "return"
        /\ anno_image.ones = SolidRectangle(d)
        /\ Traced(chain_code, Len(chain_code) - 2) \subseteq anno_image.ones

\* The boundary of the rectangle of 4 by 4 pixels at row 1, column 2, traced
\* with diagonal corner steps on an image of 4 by 5: its four inner pixels
\* have been filled and its corners have not.
C20_Witness ==
  /\ pcMask = "return"
  /\ image_dims = <<4, 5>>
  /\ chain_code = RectangleCode([top |-> 1, left |-> 2, height |-> 4,
                                 width |-> 4, diagonal |-> TRUE])
  /\ Cardinality(anno_image.ones) = 12
  /\ {<<2, 3>>, <<2, 4>>, <<3, 3>>, <<3, 4>>} \subseteq anno_image.ones
  /\ <<1, 2>> \notin anno_image.ones


(***************************************************************************)
(* C21.  Calls of the returned functions are independent of each other.    *)
(***************************************************************************)
\* A kept result came from the function and the size of the call that has
\* just finished.
SameCall(r) == r.handle = session.handle /\ r.image_dims = image_dims

CallFinished == pcGt = "returned" /\ pcMask \in {"return", "error"}

\* C21: a call of a mask function gives what every earlier call of the same
\* function with the same size gave, whatever calls were made in between
\* (other sizes, functions of other abnormalities), and no call changes the
\* chain codes stored in the returned result.
C21_CallsAreIndependent ==
  /\ [](CallFinished =>
          \A j \in 1..Len(session.kept) :
            SameCall(session.kept[j]) => session.kept[j].result = Outcome)
  /\ [][pcGt = "returned" => groundtruth' = groundtruth]_vars

\* A mask was kept, then a call of the same function with the other size was
\* made and kept, and a third call like the first has returned a mask.
C21_Witness ==
  /\ CallFinished /\ pcMask = "return"
  /\ Len(session.kept) = 2
  /\ SameCall(session.kept[1])
  /\ session.kept[1].result.image.allocated
  /\ session.kept[2].handle = session.handle
  /\ session.kept[2].image_dims # image_dims


(***************************************************************************)
(* C22.  The pixel count and the product of the declared dimensions.       *)
(***************************************************************************)
\* n = rows * cols as numbers, for positive rows and cols, without forming the
\* product.
IsProduct(n, rows, cols) == n % rows = 0 /\ n \div rows = cols

\* C22: whenever makePnmFile returns 0, the number of pixel values written
\* is the product rows * cols of the declared dimensions as numbers, also
\* when that product does not fit in 32 bits.
C22_CountIsTheProduct ==
  pc = "returned" /\ status = 0 => IsProduct(numPixels, numRows, numCols)


(***************************************************************************)
(* C23.  Numbers of a chain code that are not directions.                  *)
(***************************************************************************)
\* The loop is at a number that is not one of the directions 0..7.
AtOtherToken ==
  /\ pcMask = "for"
  /\ chainIndex <= Len(chain_code)
  /\ chain_code[chainIndex] \notin 0..7

\* C23: a number after the first two that is not one of 0..7 raises no error
\* and leaves the position of the trace where it is, and the call gives what
\* the call for the chain code without that number gives for the same size
\* (in the files of SpecTokens the two chain codes are the core and the
\* boundary of the abnormality).
C23_OtherTokenIgnored ==
  /\ [][AtOtherToken => pos' = pos /\ pcMask' = "for"]_vars
  /\ [](CallFinished =>
          \A j \in 1..Len(session.kept) :
            /\ session.kept[j].handle # session.handle
            /\ session.kept[j].image_dims = image_dims
            => session.kept[j].result = Outcome)

\* The boundary has given a mask that was kept, and the call of the core,
\* whose chain code holds a number that is not a direction, has returned for
\* the same size.
C23_Witness ==
  /\ CallFinished /\ pcMask = "return"
  /\ session.handle = <<1, 1>>
  /\ \E j \in 3..Len(chain_code) : chain_code[j] \notin 0..7
  /\ Len(session.kept) >= 1
  /\ session.kept[1].handle = <<1, 0>>
  /\ session.kept[1].image_dims = image_dims
  /\ session.kept[1].result.image.ones # {}

=============================================================================
